---------------------------- MODULE Spec2Model ----------------------------
(***************************************************************************)
(* A model of the core engines of the PII redaction backend:               *)
(*   - EntityMerger      (src/backend/app/engines/entity_merger.py)        *)
(*   - RedactionEngine   (src/backend/app/engines/redaction_engine.py)     *)
(*   - VerificationEngine(src/backend/app/engines/verification_engine.py)  *)
(*   - AudioRedactor     (src/backend/app/engines/audio_redactor.py)       *)
(*                                                                         *)
(* Conventions.                                                            *)
(*   - A Python str is a sequence of characters, each character a TLA+     *)
(*     string naming it ("a", or "U+2588" for a character outside ASCII),  *)
(*     so slicing, concatenation and len() are the sequence operations.    *)
(*     Source tags, which are only compared and joined, are TLA+ strings.  *)
(*   - A confidence is a number of hundredths (0.70 is 70): every          *)
(*     confidence the detectors emit and the boost 0.10 are multiples of   *)
(*     0.01.  Binary floating-point rounding is not modelled.              *)
(*   - An entity dict is a record with the keys the detectors always set.  *)
(***************************************************************************)
EXTENDS Integers, Sequences, FiniteSets, TLC

VARIABLES
    \* ---- EntityMerger.merge and its caller
    entity_lists,   \* the *entity_lists argument of the call (a sequence of lists)
    merge_out,      \* the list returned by the most recent call of merge
    first_out,      \* the list returned by the first call, kept by the caller
    mpc,            \* "ready" | "merged" | "remerged" | "swapped"
    \* ---- RedactionEngine (one long-lived instance) and its caller
    text,                 \* the text argument of the last call of redact
    entities,             \* the entities argument of the last call
    strategy,             \* the strategy argument of the last call
    redacted_text,        \* first component of the tuple redact returned
    updated_entities,     \* second component of that tuple
    anonymization_cache,  \* self._anonymization_cache: cache_key -> synthetic value
    issued,               \* history: the <<cache_key, replacement>> pairs that
                          \* _anonymize returned since the cache was last empty
    generator_log,        \* history: for each cache miss of _anonymize since the
                          \* cache was last empty, <<entity_type, value, what
                          \* the generator did, the value stored>>
    ncalls,               \* number of calls of redact made so far
    rpc,                  \* "idle" | "pending" (arguments chosen) | "returned"
    \* ---- VerificationEngine.verify (one call)
    scanned_text,    \* the redacted_text argument of verify
    max_retries,     \* the max_retries argument
    nlp_available,   \* self.nlp_engine and self.nlp_engine.is_available()
    attempt,         \* the next value of the loop variable of range(max_retries)
    regex_entities,  \* what regex_engine.detect returned in the latest scan
    nlp_entities,    \* what nlp_engine.detect returned in the latest scan
    result,          \* the result dict
    vpc,             \* "idle" | "Scanning" | "Done"
    scan_log,        \* history: per scan performed, whether it left a residual finding
    scan_findings,   \* history: per scan performed, its all_residual list
    \* ---- AudioRedactor.redact_audio (one call)
    words_with_ts,        \* the word timings extracted from the transcription
    full_text,            \* the transcript text
    pii_entities,         \* what pii_pipeline_fn(full_text) returned
    pii_segments,         \* the segments handed to _merge_overlapping
    merged_segments,      \* what _merge_overlapping returned
    redacted_transcript,  \* what _build_redacted_transcript returned
    audit_log,            \* the audit_log of the returned dict
    entities_found,       \* the entities_found of the returned dict
    apc,                  \* "idle" | "segments" | "merged" | "ready" | "returned" | "error"
    \* ---- The objects behind a merge call and the redact call that follows it
    obj_dicts,     \* the dict objects: obj_dicts[r] is the dict with reference r
    obj_lists,     \* the list objects: obj_lists[l] is a sequence of dict references
    dicts_before,  \* obj_dicts as the latest call found it
    lists_before,  \* obj_lists as the latest call found it
    call_args,     \* the list references passed to the latest call
    call_ret,      \* the reference of the list the latest call returned
    call_text,     \* the text the latest redact call returned
    hpc,           \* "idle" | "ready" | "merged" | "redacted"
    \* ---- The worker threads of the router's pool inside _anonymize
    workers,       \* per worker: where it is in _anonymize and its locals
    \* ---- ImageRedactor.redact_image (one call)
    ocr_results,        \* what _run_ocr returned: a list of (bbox, text, conf)
    char_to_box_map,    \* per OCR result, its offsets in the joined text
    ocr_text,           \* full_text, returned under the key ocr_text
    image_entities,     \* what pii_pipeline_fn(full_text) returned
    redaction_regions,  \* the regions to black out
    image_audit_log,    \* the audit_log of the returned dict
    total_entities,     \* the total_entities of the returned dict
    ipc,                \* "idle" | "ocr" | "returned"
    \* ---- DownloadManager: request handlers, savers and the cleanup thread
    jobs,           \* self.jobs: job_id -> metadata (the file is named by the job_id)
    files,          \* the job_ids whose file exists in download_dir
    metadata_file,  \* the job_ids in jobs_metadata.json
    clock,          \* time.time(), in seconds
    getter,         \* the request handler inside get_job and its locals
    saver,          \* the worker inside save_file and its locals
    cleaner,        \* the cleanup thread and the locals of _cleanup_expired
    raised          \* the functions an exception has left

mergerVars == <<entity_lists, merge_out, first_out, mpc>>

redactionVars == <<text, entities, strategy, redacted_text, updated_entities,
                   anonymization_cache, issued, generator_log, ncalls, rpc>>

verificationVars == <<scanned_text, max_retries, nlp_available, attempt,
                      regex_entities, nlp_entities, result, vpc, scan_log,
                      scan_findings>>

audioVars == <<words_with_ts, full_text, pii_entities, pii_segments, merged_segments,
               redacted_transcript, audit_log, entities_found, apc>>

objectVars == <<obj_dicts, obj_lists, dicts_before, lists_before, call_args, call_ret,
                call_text, hpc>>

workerVars == <<workers>>

imageVars == <<ocr_results, char_to_box_map, ocr_text, image_entities, redaction_regions,
               image_audit_log, total_entities, ipc>>

downloadVars == <<jobs, files, metadata_file, clock, getter, saver, cleaner, raised>>

vars == <<entity_lists, merge_out, first_out, mpc,
          text, entities, strategy, redacted_text, updated_entities,
          anonymization_cache, issued, generator_log, ncalls, rpc,
          scanned_text, max_retries, nlp_available, attempt,
          regex_entities, nlp_entities, result, vpc, scan_log, scan_findings,
          words_with_ts, full_text, pii_entities, pii_segments, merged_segments,
          redacted_transcript, audit_log, entities_found, apc,
          obj_dicts, obj_lists, dicts_before, lists_before, call_args, call_ret,
          call_text, hpc, workers,
          ocr_results, char_to_box_map, ocr_text, image_entities, redaction_regions,
          image_audit_log, total_entities, ipc,
          jobs, files, metadata_file, clock, getter, saver, cleaner, raised>>

-----------------------------------------------------------------------------
(* Bounds of the model *)

\* Offsets range over 0..MaxPos; the document has MaxPos characters.
MaxPos == 6

\* The regex detector reports at most MaxRegexHits entities, the NLP detector
\* at most MaxNlpHits.
MaxRegexHits == 2
MaxNlpHits == 1

\* redact is called on a text of MaxTextLen characters with at most MaxBatch
\* entities; one engine serves at most MaxCalls calls.
MaxTextLen == 4
MaxBatch == 2
MaxCalls == 3

\* verify is called with max_retries in 0..MaxRetries; each detector reports
\* at most MaxFindings entities per scan.
MaxRetries == 3
MaxFindings == 1

\* _merge_overlapping is called with at most MaxSegments segments.
MaxSegments == 3

\* A transcription has at most MaxWords timed words, each starting and ending
\* at a whole second in 0..MaxSeconds.
MaxWords == 2
MaxSeconds == 2

\* MaxWorkers threads of the pool run _anonymize at the same time.
MaxWorkers == 2

\* ImageRedactor: the number of text boxes the OCR returns
MaxBoxes == 2

\* DownloadManager: the number of files saved, and the last second of the clock
MaxJobs == 2
MaxClock == 4

-----------------------------------------------------------------------------
(* Entity types: the tags the detectors emit, as the strings they are *)

EMAIL == <<"E", "M", "A", "I", "L">>
PHONE == <<"P", "H", "O", "N", "E">>
DATE == <<"D", "A", "T", "E">>
PERSON_NAME == <<"P", "E", "R", "S", "O", "N", "_", "N", "A", "M", "E">>
EVENT == <<"E", "V", "E", "N", "T">>

-----------------------------------------------------------------------------
(* Generic helpers (Python built-ins) *)

Min(a, b) == IF a <= b THEN a ELSE b
Max(a, b) == IF a >= b THEN a ELSE b

\* text[start:end] for 0 <= start, end (Python slice semantics, clamped)
Slice(txt, start, end) ==
    LET s == Min(start, Len(txt))
        e == Min(end, Len(txt))
    IN  IF s >= e THEN <<>> ELSE SubSeq(txt, s + 1, e)

\* text[start:] (Python slice semantics, clamped)
SliceFrom(txt, start) == Slice(txt, start, Len(txt))

\* list.reverse()
Reverse(seq) == [i \in 1..Len(seq) |-> seq[Len(seq) + 1 - i]]

-----------------------------------------------------------------------------
(* EntityMerger *)

\* MULTI_SOURCE_BOOST = 0.10, in hundredths
MULTI_SOURCE_BOOST == 10

\* The cap 1.0 of a confidence, in hundredths
ConfidenceCap == 100

\* all_entities = []; for elist in entity_lists: all_entities.extend(elist)
RECURSIVE Flatten(_)
Flatten(lists) ==
    IF lists = <<>> THEN <<>> ELSE Head(lists) \o Flatten(Tail(lists))

\* key=lambda e: (e["start"], -e.get("confidence", 0)), compared as tuples
MergeKeyBefore(a, b) ==
    \/ a.start < b.start
    \/ a.start = b.start /\ -a.confidence < -b.confidence

\* key=lambda e: e["start"]
StartBefore(a, b) == a.start < b.start

\* Python's sort is stable: an element goes after every element already placed
\* whose key is not greater than its own.
RECURSIVE InsertByMergeKey(_, _)
InsertByMergeKey(x, seq) ==
    IF seq = <<>> THEN <<x>>
    ELSE IF MergeKeyBefore(x, Head(seq)) THEN <<x>> \o seq
    ELSE <<Head(seq)>> \o InsertByMergeKey(x, Tail(seq))

\* all_entities.sort(key=lambda e: (e["start"], -e.get("confidence", 0)))
RECURSIVE SortByMergeKey(_)
SortByMergeKey(seq) ==
    IF seq = <<>> THEN <<>>
    ELSE InsertByMergeKey(seq[Len(seq)], SortByMergeKey(SubSeq(seq, 1, Len(seq) - 1)))

RECURSIVE InsertByStart(_, _)
InsertByStart(x, seq) ==
    IF seq = <<>> THEN <<x>>
    ELSE IF StartBefore(x, Head(seq)) THEN <<x>> \o seq
    ELSE <<Head(seq)>> \o InsertByStart(x, Tail(seq))

\* sorted(merged, key=lambda e: e["start"])
RECURSIVE SortByStart(_)
SortByStart(seq) ==
    IF seq = <<>> THEN <<>>
    ELSE InsertByStart(seq[Len(seq)], SortByStart(SubSeq(seq, 1, Len(seq) - 1)))

\* _calculate_overlap: the ratio overlap_len / min_len as <<numerator,
\* denominator>>; 0.0 is <<0, 1>>.
CalculateOverlap(e1, e2) ==
    LET start == Max(e1.start, e2.start)
        end == Min(e1.end, e2.end)
        overlap_len == end - start
        min_len == Min(e1.end - e1.start, e2.end - e2.start)
    IN  IF start >= end THEN <<0, 1>>
        ELSE IF min_len = 0 THEN <<0, 1>>
        ELSE <<overlap_len, min_len>>

\* overlap > 0.5
SignificantOverlap(e1, e2) ==
    LET r == CalculateOverlap(e1, e2) IN 2 * r[1] > r[2]

\* _merge_two with the source comparison dropped: the boost is always applied
MergeTwoAlwaysBoost(e1, e2) ==
    LET base == IF e1.confidence >= e2.confidence THEN e1 ELSE e2
    IN  [base EXCEPT
            !.start = Min(e1.start, e2.start),
            !.end = Max(e1.end, e2.end),
            !.confidence = Min(base.confidence + MULTI_SOURCE_BOOST, ConfidenceCap),
            !.source = e1.source \o "+" \o e2.source]

\* _merge_two without the expansion of the span
MergeTwoKeepsBaseSpan(e1, e2) ==
    LET base == IF e1.confidence >= e2.confidence THEN e1 ELSE e2
    IN  IF e1.source # e2.source
        THEN [base EXCEPT
                !.confidence = Min(base.confidence + MULTI_SOURCE_BOOST, ConfidenceCap),
                !.source = e1.source \o "+" \o e2.source]
        ELSE base

\* _merge_two with the second entity as base on a confidence tie
MergeTwoSecondWinsTie(e1, e2) ==
    LET base == IF e1.confidence > e2.confidence THEN e1 ELSE e2
        span == [base EXCEPT !.start = Min(e1.start, e2.start),
                              !.end = Max(e1.end, e2.end)]
    IN  IF e1.source # e2.source
        THEN [span EXCEPT
                !.confidence = Min(base.confidence + MULTI_SOURCE_BOOST, ConfidenceCap),
                !.source = e1.source \o "+" \o e2.source]
        ELSE span

\* _merge_two
MergeTwo(e1, e2) ==
    LET base == IF e1.confidence >= e2.confidence THEN e1 ELSE e2
        span == [base EXCEPT !.start = Min(e1.start, e2.start),
                              !.end = Max(e1.end, e2.end)]
    IN  IF e1.source # e2.source
        THEN [span EXCEPT
                !.confidence = Min(base.confidence + MULTI_SOURCE_BOOST, ConfidenceCap),
                !.source = e1.source \o "+" \o e2.source]
        ELSE span

\* The inner loop of _merge_overlaps: the index of the first existing item
\* that overlaps the entity significantly, 0 when there is none.
FirstOverlapping(entity, merged) ==
    LET hits == {i \in 1..Len(merged) : SignificantOverlap(entity, merged[i])}
    IN  IF hits = {} THEN 0 ELSE CHOOSE i \in hits : \A j \in hits : i <= j

\* One iteration of the outer loop of _merge_overlaps
MergeInto(merged, entity) ==
    LET i == FirstOverlapping(entity, merged)
    IN  IF i = 0 THEN Append(merged, entity)
        ELSE [merged EXCEPT ![i] = MergeTwo(merged[i], entity)]

\* _merge_overlaps
RECURSIVE MergeOverlaps(_)
MergeOverlaps(ents) ==
    IF ents = <<>> THEN <<>>
    ELSE MergeInto(MergeOverlaps(SubSeq(ents, 1, Len(ents) - 1)), ents[Len(ents)])

\* for entity in merged: entity["confidence"] = min(entity.get("confidence", 0.5), 1.0)
ClampConfidence(merged) ==
    [i \in 1..Len(merged) |->
        [merged[i] EXCEPT !.confidence = Min(merged[i].confidence, ConfidenceCap)]]

\* merge without its two sorts
MergeUnsorted(lists) ==
    LET all_entities == Flatten(lists)
    IN  IF all_entities = <<>> THEN <<>>
        ELSE ClampConfidence(MergeOverlaps(all_entities))

\* EntityMerger.merge(*entity_lists)
Merge(lists) ==
    LET all_entities == Flatten(lists)
    IN  IF all_entities = <<>> THEN <<>>
        ELSE SortByStart(ClampConfidence(MergeOverlaps(SortByMergeKey(all_entities))))

-----------------------------------------------------------------------------
(* RedactionEngine *)

\* MASK_CHAR as the source file spells it: the three characters
\* U+00E2 U+2013 U+02C6 (line 28 holds the UTF-8 bytes of these three
\* characters, not those of the single block character U+2588).
MASK_CHAR == <<"U+00E2", "U+2013", "U+02C6">>

\* s * n for a string s
RECURSIVE Repeat(_, _)
Repeat(s, n) == IF n <= 0 THEN <<>> ELSE s \o Repeat(s, n - 1)

\* _mask: self.MASK_CHAR * len(entity["value"])
MaskOf(entity) == Repeat(MASK_CHAR, Len(entity.value))

\* _tag_replace: f"[{entity['entity_type']}]"
TagReplace(entity) == <<"[">> \o entity.entity_type \o <<"]">>

\* The entity types that have a generator in FAKER_MAP
FAKER_MAP == {EMAIL, PHONE, DATE, PERSON_NAME}

\* f"[ANON_{entity_type}]"
AnonFallback(entity_type) == <<"[", "A", "N", "O", "N", "_">> \o entity_type \o <<"]">>

\* cache_key = f"{entity_type}:{value}"
CacheKey(entity) == entity.entity_type \o <<":">> \o entity.value

\* What one call of a FAKER_MAP generator can do: return a synthetic string
\* or raise.  The generators draw from Faker and random; two distinct
\* synthetic strings of different lengths stand for their outputs.
Synthetic == {<<"f", "1">>, <<"f", "2", "x">>}
GeneratorOutcomes == {<<"returns", v>> : v \in Synthetic} \cup {<<"raises", <<>>>>}

\* _anonymize on a cache miss with no except clause: the empty string stands
\* for the exception that leaves _anonymize
GenerateUncaught(entity, outcome) ==
    IF entity.entity_type \in FAKER_MAP
    THEN IF outcome[1] = "returns" THEN outcome[2] ELSE <<>>
    ELSE AnonFallback(entity.entity_type)

\* _anonymize on a cache miss: the synthetic value for the entity, given what
\* the generator does (outcome)
Generate(entity, outcome) ==
    IF entity.entity_type \in FAKER_MAP
    THEN IF outcome[1] = "returns" THEN outcome[2] ELSE AnonFallback(entity.entity_type)
    ELSE AnonFallback(entity.entity_type)

\* _anonymize without the cache lookup: a value is generated and stored on
\* every call
AnonymizeNoLookup(entity, cache, outcome) ==
    LET cache_key == CacheKey(entity)
        synthetic == Generate(entity, outcome)
    IN  <<synthetic,
          [k \in DOMAIN cache \cup {cache_key} |->
                IF k = cache_key THEN synthetic ELSE cache[k]]>>

\* _anonymize: <<replacement, cache afterwards>>
Anonymize(entity, cache, outcome) ==
    LET cache_key == CacheKey(entity)
    IN  IF cache_key \in DOMAIN cache
        THEN <<cache[cache_key], cache>>
        ELSE LET synthetic == Generate(entity, outcome)
             IN  <<synthetic,
                   [k \in DOMAIN cache \cup {cache_key} |->
                        IF k = cache_key THEN synthetic ELSE cache[k]]>>

\* hexdigest()[:16] keeps 16 hexadecimal digits
HASH_DIGITS == 16

HexDigits == <<"0", "1", "2", "3", "4", "5", "6", "7",
               "8", "9", "a", "b", "c", "d", "e", "f">>

\* A number for each character of the alphabet of the model's texts
CharCode(c) ==
    CASE c = "a" -> 1 [] c = "b" -> 2 [] c = "c" -> 3 [] c = "d" -> 4
      [] c = "@" -> 5 [] c = "." -> 6 [] c = " " -> 7 [] c = "o" -> 8
      [] c = "m" -> 9 [] c = "n" -> 10 [] OTHER -> 11

\* hashlib.sha256(value.encode()).hexdigest()[:16] is a library function: it
\* is modelled as a deterministic function of the value that returns
\* HASH_DIGITS hexadecimal digits (a positional checksum, not SHA-256).
RECURSIVE Checksum(_)
Checksum(value) ==
    IF value = <<>> THEN 7
    ELSE (31 * Checksum(SubSeq(value, 1, Len(value) - 1)) + CharCode(value[Len(value)])) % 65521

HexDigest16(value) ==
    [i \in 1..HASH_DIGITS |-> HexDigits[((Checksum(value) * i + i) % 16) + 1]]

\* _hash: f"#{hash_val}#"
HashOf(entity) == <<"#">> \o HexDigest16(entity.value) \o <<"#">>

\* The strategy names redact knows; any other name falls back to _mask
KnownStrategies == {"mask", "tag_replace", "anonymize", "hash"}

\* strategy_fn(entity): <<replacement, cache afterwards>>
ApplyStrategy(strat, entity, cache, outcome) ==
    CASE strat = "mask" -> <<MaskOf(entity), cache>>
      [] strat = "tag_replace" -> <<TagReplace(entity), cache>>
      [] strat = "anonymize" -> Anonymize(entity, cache, outcome)
      [] strat = "hash" -> <<HashOf(entity), cache>>
      [] OTHER -> <<MaskOf(entity), cache>>

\* key=lambda e: e["start"], reverse=True
StartAfter(a, b) == a.start > b.start

RECURSIVE InsertByStartDesc(_, _)
InsertByStartDesc(x, seq) ==
    IF seq = <<>> THEN <<x>>
    ELSE IF StartAfter(x, Head(seq)) THEN <<x>> \o seq
    ELSE <<Head(seq)>> \o InsertByStartDesc(x, Tail(seq))

\* sorted(entities, key=lambda e: e["start"], reverse=True): stable, equal
\* starts keep their order
RECURSIVE SortByStartDesc(_)
SortByStartDesc(seq) ==
    IF seq = <<>> THEN <<>>
    ELSE InsertByStartDesc(seq[Len(seq)], SortByStartDesc(SubSeq(seq, 1, Len(seq) - 1)))

\* entity_copy = entity.copy(); entity_copy["redacted_value"] = replacement
WithRedactedValue(entity, replacement) ==
    [k \in DOMAIN entity \cup {"redacted_value"} |->
        IF k = "redacted_value" THEN replacement ELSE entity[k]]

\* redacted_text[:start] + replacement + redacted_text[end:]
Substitute(txt, start, end, replacement) ==
    Slice(txt, 0, start) \o replacement \o SliceFrom(txt, end)

\* The loop of redact over sorted_entities[i..]: outcomes[i] is what the
\* generator does if the i-th entity processed misses the cache.
RECURSIVE RedactLoop(_, _, _, _, _, _, _)
RedactLoop(sorted_entities, i, strat, txt, updated, cache, outcomes) ==
    IF i > Len(sorted_entities)
    THEN [redacted_text |-> txt, updated_entities |-> Reverse(updated), cache |-> cache]
    ELSE LET entity == sorted_entities[i]
             applied == ApplyStrategy(strat, entity, cache, outcomes[i])
             replacement == applied[1]
         IN  RedactLoop(sorted_entities, i + 1, strat,
                        Substitute(txt, entity.start, entity.end, replacement),
                        Append(updated, WithRedactedValue(entity, replacement)),
                        applied[2], outcomes)

\* redact with the entities processed left to right (reverse=True forgotten)
RedactLeftToRight(txt, ents, strat, cache, outcomes) ==
    IF ents = <<>>
    THEN [redacted_text |-> txt, updated_entities |-> ents, cache |-> cache]
    ELSE LET r == RedactLoop(Reverse(SortByStartDesc(ents)), 1, strat, txt, <<>>, cache, outcomes)
         IN  [r EXCEPT !.updated_entities = Reverse(r.updated_entities)]

\* RedactionEngine.redact(text, entities, strategy)
Redact(txt, ents, strat, cache, outcomes) ==
    IF ents = <<>>
    THEN [redacted_text |-> txt, updated_entities |-> ents, cache |-> cache]
    ELSE RedactLoop(SortByStartDesc(ents), 1, strat, txt, <<>>, cache, outcomes)

-----------------------------------------------------------------------------
(* merge and redact on objects: a heap h is [dicts, lists], a dict or list  *)
(* is named by its index, and the code's copies, item assignments and list  *)
(* constructions are the allocations and updates below                      *)

\* A new dict object holding d; its reference is Len(h.dicts) + 1
AllocDict(h, d) == [h EXCEPT !.dicts = Append(@, d)]

\* A new list object holding the references items; its reference is
\* Len(h.lists) + 1
AllocList(h, items) == [h EXCEPT !.lists = Append(@, items)]

\* An assignment in place of a copy: the "copy" is the object itself
CopyDictAliased(h, ref) == <<h, ref>>

\* dict.copy(): <<heap afterwards, reference of the copy>>
CopyDict(h, ref) == <<AllocDict(h, h.dicts[ref]), Len(h.dicts) + 1>>

\* obj[key] = val
SetItem(h, ref, key, val) ==
    [h EXCEPT !.dicts[ref] =
        [k \in DOMAIN h.dicts[ref] \cup {key} |-> IF k = key THEN val ELSE h.dicts[ref][k]]]

\* The sort keys of the dicts a list of references names, each with its
\* reference
Keyed(h, refs) ==
    [i \in 1..Len(refs) |->
        [start |-> h.dicts[refs[i]].start, confidence |-> h.dicts[refs[i]].confidence,
         ref |-> refs[i]]]

\* The references of a list of keyed items
RefsOf(keyed) == [i \in 1..Len(keyed) |-> keyed[i].ref]

\* _merge_two(e1, e2) on references: <<heap afterwards, reference returned>>
RefMergeTwo(h, e1, e2) ==
    LET base == IF h.dicts[e1].confidence >= h.dicts[e2].confidence THEN e1 ELSE e2
        copied == CopyDict(h, base)
        merged == copied[2]
        h1 == SetItem(copied[1], merged, "start",
                      Min(copied[1].dicts[e1].start, copied[1].dicts[e2].start))
        h2 == SetItem(h1, merged, "end", Max(h1.dicts[e1].end, h1.dicts[e2].end))
        h3 == SetItem(h2, merged, "confidence",
                      Min(h2.dicts[base].confidence + MULTI_SOURCE_BOOST, ConfidenceCap))
        h4 == SetItem(h3, merged, "source",
                      h3.dicts[e1].source \o "+" \o h3.dicts[e2].source)
    IN  IF h2.dicts[e1].source # h2.dicts[e2].source
        THEN <<h4, merged>>
        ELSE <<h2, merged>>

\* The loop of _merge_overlaps over entities[i..]: <<heap afterwards, merged>>
RECURSIVE RefMergeOverlaps(_, _, _, _)
RefMergeOverlaps(h, ents, i, merged) ==
    IF i > Len(ents) THEN <<h, merged>>
    ELSE LET entity == ents[i]
             hits == {j \in 1..Len(merged) :
                        SignificantOverlap(h.dicts[entity], h.dicts[merged[j]])}
         IN  IF hits = {}
             THEN LET copied == CopyDict(h, entity)
                  IN  RefMergeOverlaps(copied[1], ents, i + 1, Append(merged, copied[2]))
             ELSE LET j == CHOOSE x \in hits : \A y \in hits : x <= y
                      two == RefMergeTwo(h, merged[j], entity)
                  IN  RefMergeOverlaps(two[1], ents, i + 1, [merged EXCEPT ![j] = two[2]])

\* for entity in merged: entity["confidence"] = min(...), from index i on
RECURSIVE RefClamp(_, _, _)
RefClamp(h, merged, i) ==
    IF i > Len(merged) THEN h
    ELSE RefClamp(SetItem(h, merged[i], "confidence",
                          Min(h.dicts[merged[i]].confidence, ConfidenceCap)),
                  merged, i + 1)

\* merge(*entity_lists) on references: [heap, ret], ret the reference of the
\* returned list
RefMerge(h, list_refs) ==
    LET all_entities == Flatten([i \in 1..Len(list_refs) |-> h.lists[list_refs[i]]])
    IN  IF all_entities = <<>>
        THEN [heap |-> AllocList(h, <<>>), ret |-> Len(h.lists) + 1]
        ELSE LET in_order == RefsOf(SortByMergeKey(Keyed(h, all_entities)))
                 overlaps == RefMergeOverlaps(h, in_order, 1, <<>>)
                 clamped == RefClamp(overlaps[1], overlaps[2], 1)
                 returned == RefsOf(SortByStart(Keyed(clamped, overlaps[2])))
             IN  [heap |-> AllocList(clamped, returned), ret |-> Len(clamped.lists) + 1]

\* The loop of redact over sorted_entities[i..], for the strategies that
\* keep no state: [heap, text, updated]
RECURSIVE RefRedactLoop(_, _, _, _, _, _)
RefRedactLoop(h, sorted_entities, i, strat, txt, updated) ==
    IF i > Len(sorted_entities) THEN [heap |-> h, text |-> txt, updated |-> updated]
    ELSE LET entity == sorted_entities[i]
             replacement == ApplyStrategy(strat, h.dicts[entity], <<>>, <<"raises", <<>>>>)[1]
             copied == CopyDict(h, entity)
             h1 == SetItem(copied[1], copied[2], "redacted_value", replacement)
         IN  RefRedactLoop(h1, sorted_entities, i + 1, strat,
                           Substitute(txt, h1.dicts[entity].start, h1.dicts[entity].end,
                                      replacement),
                           Append(updated, copied[2]))

\* redact(text, entities, strategy) on references: [heap, text, ret]
RefRedact(h, txt, list_ref, strat) ==
    IF h.lists[list_ref] = <<>>
    THEN [heap |-> h, text |-> txt, ret |-> list_ref]
    ELSE LET sorted_entities == RefsOf(SortByStartDesc(Keyed(h, h.lists[list_ref])))
             done == RefRedactLoop(h, sorted_entities, 1, strat, txt, <<>>)
         IN  [heap |-> AllocList(done.heap, Reverse(done.updated)),
              text |-> done.text,
              ret |-> Len(done.heap.lists) + 1]

\* The dicts a list object names, in order
Deref(h, list_ref) == [i \in 1..Len(h.lists[list_ref]) |-> h.dicts[h.lists[list_ref][i]]]

-----------------------------------------------------------------------------
(* VerificationEngine *)

\* value.startswith(prefix) for a one-character prefix
StartsWith(value, c) == Len(value) >= 1 /\ value[1] = c

\* value.endswith(suffix) for a one-character suffix
EndsWith(value, c) == Len(value) >= 1 /\ value[Len(value)] = c

\* c in context
Contains(context, c) == \E i \in 1..Len(context) : context[i] = c

\* The mask character _is_redaction_artifact looks for: the block U+2588
VERIFY_MASK_CHAR == "U+2588"

\* The width of the context window on each side of a candidate
CONTEXT_WINDOW == 5

\* _is_redaction_artifact without its bracket-tag rule
IsRedactionArtifactNoTagRule(entity, txt) ==
    LET value == entity.value
        context_start == Max(0, entity.start - CONTEXT_WINDOW)
        context_end == Min(Len(txt), entity.end + CONTEXT_WINDOW)
        context == Slice(txt, context_start, context_end)
    IN  \/ \A i \in 1..Len(value) : value[i] = VERIFY_MASK_CHAR
        \/ StartsWith(value, "#") /\ EndsWith(value, "#")
        \/ Contains(context, "[") /\ Contains(context, "]")

\* _is_redaction_artifact(entity, text)
IsRedactionArtifact(entity, txt) ==
    LET value == entity.value
        context_start == Max(0, entity.start - CONTEXT_WINDOW)
        context_end == Min(Len(txt), entity.end + CONTEXT_WINDOW)
        context == Slice(txt, context_start, context_end)
    IN  \/ StartsWith(value, "[") /\ EndsWith(value, "]")
        \/ \A i \in 1..Len(value) : value[i] = VERIFY_MASK_CHAR
        \/ StartsWith(value, "#") /\ EndsWith(value, "#")
        \/ Contains(context, "[") /\ Contains(context, "]")

\* [e for e in found if not self._is_redaction_artifact(e, redacted_text)]
RealEntities(found, txt) == SelectSeq(found, LAMBDA e : ~IsRedactionArtifact(e, txt))

\* result at the start of verify
InitialResult ==
    [passed |-> TRUE, residual_entities |-> <<>>, scan_count |-> 0, confidence |-> 100]

\* A loop that runs one iteration too many
RangeHasNextInclusive(i, n) == i <= n

\* for attempt in range(max_retries): there is a next iteration
RangeHasNext(i, n) == i < n

\* A loop without its break
BreaksNever(all_residual) == FALSE

\* if not all_residual: ... break
Breaks(all_residual) == all_residual = <<>>

\* The body of the loop: the result dict after the scan of iteration i
ScanResult(res, i, all_residual) ==
    IF all_residual = <<>>
    THEN [res EXCEPT !.scan_count = i + 1, !.passed = TRUE, !.confidence = 100]
    ELSE [res EXCEPT !.scan_count = i + 1,
                     !.residual_entities = all_residual,
                     !.passed = FALSE,
                     !.confidence = Max(0, 100 - Len(all_residual) * 10)]

-----------------------------------------------------------------------------
(* AudioRedactor *)

\* key=lambda s: s["start_ms"]
StartMsBefore(a, b) == a.start_ms < b.start_ms

RECURSIVE InsertByStartMs(_, _)
InsertByStartMs(x, seq) ==
    IF seq = <<>> THEN <<x>>
    ELSE IF StartMsBefore(x, Head(seq)) THEN <<x>> \o seq
    ELSE <<Head(seq)>> \o InsertByStartMs(x, Tail(seq))

\* sorted(segments, key=lambda s: s["start_ms"])
RECURSIVE SortByStartMs(_)
SortByStartMs(seq) ==
    IF seq = <<>> THEN <<>>
    ELSE InsertByStartMs(seq[Len(seq)], SortByStartMs(SubSeq(seq, 1, Len(seq) - 1)))

\* The branch of _merge_overlapping that extends the last region, with the
\* end of the segment taken in place of the maximum
AbsorbTakingEnd(last, seg) ==
    [last EXCEPT !.end_ms = seg.end_ms,
                 !.value = last.value \o <<",", " ">> \o seg.value,
                 !.entity_type = last.entity_type \o <<",">> \o seg.entity_type]

\* The branch of _merge_overlapping that extends the last region
Absorb(last, seg) ==
    [last EXCEPT !.end_ms = Max(last.end_ms, seg.end_ms),
                 !.value = last.value \o <<",", " ">> \o seg.value,
                 !.entity_type = last.entity_type \o <<",">> \o seg.entity_type]

\* for seg in sorted_segs[1:]: from index i on
RECURSIVE SweepSegments(_, _, _)
SweepSegments(sorted_segs, i, merged) ==
    IF i > Len(sorted_segs) THEN merged
    ELSE LET seg == sorted_segs[i]
             last == merged[Len(merged)]
         IN  IF seg.start_ms <= last.end_ms
             THEN SweepSegments(sorted_segs, i + 1,
                                [merged EXCEPT ![Len(merged)] = Absorb(last, seg)])
             ELSE SweepSegments(sorted_segs, i + 1, Append(merged, seg))

\* _merge_overlapping
MergeOverlapping(segments) ==
    IF segments = <<>> THEN <<>>
    ELSE LET sorted_segs == SortByStartMs(segments)
         IN  SweepSegments(sorted_segs, 2, <<sorted_segs[1]>>)

\* str.find(sub, start): the lowest index >= start at which sub occurs, -1
\* when there is none
Find(txt, sub, from) ==
    LET at == {p \in from..(Len(txt) - Len(sub)) : Slice(txt, p, p + Len(sub)) = sub}
    IN  IF at = {} THEN -1 ELSE CHOOSE p \in at : \A q \in at : p <= q

\* The inner loop of _map_pii_to_timestamps over words[k..]: the words whose
\* text offsets overlap the entity
RECURSIVE MatchedWords(_, _, _, _, _, _)
MatchedWords(entity, words, txt, k, current_offset, matched) ==
    IF k > Len(words) THEN matched
    ELSE LET word_text == words[k].word
             word_pos == Find(txt, word_text, current_offset)
             word_end == word_pos + Len(word_text)
         IN  IF word_pos = -1
             THEN MatchedWords(entity, words, txt, k + 1, current_offset, matched)
             ELSE MatchedWords(entity, words, txt, k + 1, word_end,
                               IF word_pos < entity.end /\ word_end > entity.start
                               THEN Append(matched, words[k])
                               ELSE matched)

\* Seconds to milliseconds
MS_PER_SECOND == 1000

\* The segment of an entity with matched words
SegmentOf(entity, matched_words) ==
    [entity_type |-> entity.entity_type, value |-> entity.value,
     confidence |-> entity.confidence,
     start_ms |-> matched_words[1].start * MS_PER_SECOND,
     end_ms |-> matched_words[Len(matched_words)].end * MS_PER_SECOND]

\* _map_pii_to_timestamps
RECURSIVE MapPiiToTimestamps(_, _, _)
MapPiiToTimestamps(ents, words, txt) ==
    IF ents = <<>> THEN <<>>
    ELSE LET matched_words == MatchedWords(Head(ents), words, txt, 1, 0, <<>>)
             rest == MapPiiToTimestamps(Tail(ents), words, txt)
         IN  IF matched_words # <<>>
             THEN <<SegmentOf(Head(ents), matched_words)>> \o rest
             ELSE rest

\* The loop of _build_redacted_transcript over sorted_ents[i..]
RECURSIVE TranscriptLoop(_, _, _)
TranscriptLoop(sorted_ents, i, transcript) ==
    IF i > Len(sorted_ents) THEN transcript
    ELSE TranscriptLoop(sorted_ents, i + 1,
                        Slice(transcript, 0, sorted_ents[i].start)
                        \o <<"[">> \o sorted_ents[i].entity_type \o <<"]">>
                        \o SliceFrom(transcript, sorted_ents[i].end))

\* _build_redacted_transcript
BuildRedactedTranscript(txt, ents) == TranscriptLoop(SortByStartDesc(ents), 1, txt)

\* The audit_log redact_audio builds from the merged segments; int() of a
\* whole number of milliseconds is that number
AuditLogOf(segments) ==
    [i \in 1..Len(segments) |->
        [entity_type |-> segments[i].entity_type, value |-> segments[i].value,
         confidence |-> segments[i].confidence,
         start_ms |-> segments[i].start_ms, end_ms |-> segments[i].end_ms,
         duration_ms |-> segments[i].end_ms - segments[i].start_ms]]

-----------------------------------------------------------------------------
(* ImageRedactor *)

\* " ".join(parts)
RECURSIVE JoinWithSpaces(_)
JoinWithSpaces(parts) ==
    IF parts = <<>> THEN <<>>
    ELSE IF Len(parts) = 1 THEN parts[1]
    ELSE parts[1] \o <<" ">> \o JoinWithSpaces(Tail(parts))

\* The loop of redact_image over ocr_results[idx..] that builds
\* full_text_parts and char_to_box_map; idx counts from 1 here
RECURSIVE CharToBoxMapLoop(_, _, _, _)
CharToBoxMapLoop(ocr, idx, full_text_parts, map) ==
    IF idx > Len(ocr) THEN [parts |-> full_text_parts, map |-> map]
    ELSE LET joined_len == Len(JoinWithSpaces(full_text_parts))
             start_offset == IF full_text_parts # <<>> THEN joined_len + 1 ELSE joined_len
             end_offset == start_offset + Len(ocr[idx].text)
         IN  CharToBoxMapLoop(ocr, idx + 1, Append(full_text_parts, ocr[idx].text),
                              Append(map, [idx |-> idx - 1, bbox |-> ocr[idx].bbox,
                                           text |-> ocr[idx].text, conf |-> ocr[idx].conf,
                                           start |-> start_offset, end |-> end_offset]))

\* if ent_start < box_info["end"] and ent_end > box_info["start"]
OverlapsBox(entity, box_info) == entity.start < box_info.end /\ entity.end > box_info.start

\* The region appended for an entity and an OCR box it overlaps
RegionOf(entity, box_info) ==
    [bbox |-> box_info.bbox, entity_type |-> entity.entity_type, value |-> entity.value,
     confidence |-> entity.confidence, source |-> entity.source,
     ocr_text |-> box_info.text, ocr_confidence |-> box_info.conf]

\* The inner loop: the regions of one entity, one per overlapping box
RECURSIVE RegionsOfEntity(_, _)
RegionsOfEntity(entity, map) ==
    IF map = <<>> THEN <<>>
    ELSE IF OverlapsBox(entity, Head(map))
         THEN <<RegionOf(entity, Head(map))>> \o RegionsOfEntity(entity, Tail(map))
         ELSE RegionsOfEntity(entity, Tail(map))

\* The outer loop: redaction_regions
RECURSIVE RedactionRegions(_, _)
RedactionRegions(ents, map) ==
    IF ents = <<>> THEN <<>>
    ELSE RegionsOfEntity(Head(ents), map) \o RedactionRegions(Tail(ents), map)

\* The audit_log built while the regions are drawn
ImageAuditLog(regions) ==
    [i \in 1..Len(regions) |->
        [entity_type |-> regions[i].entity_type, value |-> regions[i].value,
         confidence |-> regions[i].confidence, source |-> regions[i].source,
         pixel_coordinates |-> regions[i].bbox,
         ocr_text |-> regions[i].ocr_text, ocr_confidence |-> regions[i].ocr_confidence]]

-----------------------------------------------------------------------------
(* The detector outputs handed to merge *)

\* The document the detectors scanned: MaxPos characters.
Glyphs == <<"j", "o", "@", "x", ".", "i", "o", " ">>
DocText == [i \in 1..MaxPos |-> Glyphs[((i - 1) % Len(Glyphs)) + 1]]

\* What each detector reports: (entity_type, confidence) per pattern / label.
RegexKinds == {<<EMAIL, 95>>, <<PHONE, 60>>, <<DATE, 70>>}
NlpKinds == {<<DATE, 70>>, <<PERSON_NAME, 60>>}

\* The description a detector attaches: the pattern's description (regex),
\* f"NER-detected {pii_type}" (NLP)
DescriptionOf(kind, src) ==
    IF src = "nlp" THEN <<"N", "E", "R", "-">> \o kind[1] ELSE <<"p", "a", "t", "-">> \o kind[1]

Detection(kind, s, e, src) ==
    [entity_type |-> kind[1], value |-> Slice(DocText, s, e), start |-> s, end |-> e,
     confidence |-> kind[2], source |-> src, description |-> DescriptionOf(kind, src)]

Spans == {sp \in (0..MaxPos) \X (0..MaxPos) : sp[1] < sp[2]}

DetectionsOf(kinds, src) == {Detection(k, sp[1], sp[2], src) : k \in kinds, sp \in Spans}

\* The lists of at most n elements of S
RECURSIVE ListsUpTo(_, _)
ListsUpTo(S, n) ==
    IF n = 0 THEN {<<>>}
    ELSE LET shorter == ListsUpTo(S, n - 1)
         IN  shorter \cup {Append(l, x) : l \in {t \in shorter : Len(t) = n - 1}, x \in S}

-----------------------------------------------------------------------------
(* The engines before their first call *)

MergerIdle ==
    /\ entity_lists = <<>>
    /\ merge_out = <<>>
    /\ first_out = <<>>
    /\ mpc = "idle"

\* RedactionEngine.__init__: self._anonymization_cache = {}
RedactionIdle ==
    /\ text = <<>>
    /\ entities = <<>>
    /\ strategy = "none"
    /\ redacted_text = <<>>
    /\ updated_entities = <<>>
    /\ anonymization_cache = <<>>
    /\ issued = {}
    /\ generator_log = {}
    /\ ncalls = 0
    /\ rpc = "idle"

VerificationIdle ==
    /\ scanned_text = <<>>
    /\ max_retries = 0
    /\ nlp_available = FALSE
    /\ attempt = 0
    /\ regex_entities = <<>>
    /\ nlp_entities = <<>>
    /\ result = InitialResult
    /\ vpc = "idle"
    /\ scan_log = <<>>
    /\ scan_findings = <<>>

AudioIdle ==
    /\ words_with_ts = <<>>
    /\ full_text = <<>>
    /\ pii_entities = <<>>
    /\ pii_segments = <<>>
    /\ merged_segments = <<>>
    /\ redacted_transcript = <<>>
    /\ audit_log = <<>>
    /\ entities_found = <<>>
    /\ apc = "idle"

ObjectsIdle ==
    /\ obj_dicts = <<>>
    /\ obj_lists = <<>>
    /\ dicts_before = <<>>
    /\ lists_before = <<>>
    /\ call_args = <<>>
    /\ call_ret = 0
    /\ call_text = <<>>
    /\ hpc = "idle"

\* A worker that is not inside _anonymize
IdleWorker == [pc |-> "idle", entity |-> <<>>, synthetic |-> <<>>, returned |-> <<>>]

WorkersIdle == workers = [w \in 1..MaxWorkers |-> IdleWorker]

ImageIdle ==
    /\ ocr_results = <<>>
    /\ char_to_box_map = <<>>
    /\ ocr_text = <<>>
    /\ image_entities = <<>>
    /\ redaction_regions = <<>>
    /\ image_audit_log = <<>>
    /\ total_entities = 0
    /\ ipc = "idle"

\* A request handler that is not inside get_job; job and ret are Optional
\* values: <<>> is None, <<meta>> is the dict meta.  called_at is the time of
\* the call, file_exists whether the file was there when get_job returned.
IdleGetter ==
    [pc |-> "idle", job_id |-> 0, job |-> <<>>, ret |-> <<>>, called_at |-> 0,
     file_exists |-> FALSE]

\* A worker that is not inside save_file; job_id is the last id it drew
IdleSaver == [pc |-> "idle", job_id |-> 0]

\* The cleanup thread in time.sleep(300)
SleepingCleaner ==
    [pc |-> "sleeping", now |-> 0, items |-> <<>>, expired_ids |-> <<>>, next |-> 1]

\* DownloadManager.__init__ with no metadata file: self.jobs = {}
DownloadsIdle ==
    /\ jobs = <<>>
    /\ files = {}
    /\ metadata_file = {}
    /\ clock = 0
    /\ getter = IdleGetter
    /\ saver = IdleSaver
    /\ cleaner = SleepingCleaner
    /\ raised = {}

-----------------------------------------------------------------------------
(* EntityMerger: the calls *)

MergerInit ==
    /\ \E regex_list \in ListsUpTo(DetectionsOf(RegexKinds, "regex"), MaxRegexHits),
          nlp_list \in ListsUpTo(DetectionsOf(NlpKinds, "nlp"), MaxNlpHits) :
            entity_lists = <<regex_list, nlp_list>>
    /\ merge_out = <<>>
    /\ first_out = <<>>
    /\ mpc = "ready"
    /\ RedactionIdle
    /\ VerificationIdle
    /\ AudioIdle
    /\ ObjectsIdle
    /\ WorkersIdle
    /\ ImageIdle
    /\ DownloadsIdle

\* merged = merger.merge(regex_entities, nlp_entities)
CallMerge ==
    /\ mpc = "ready"
    /\ merge_out' = Merge(entity_lists)
    /\ first_out' = merge_out'
    /\ mpc' = "merged"
    /\ UNCHANGED entity_lists
    /\ UNCHANGED <<redactionVars, verificationVars, audioVars, objectVars, workerVars,
                   imageVars, downloadVars>>

\* merger.merge(merged): the returned list is merged once more
CallMergeAgain ==
    /\ mpc = "merged"
    /\ entity_lists' = <<merge_out>>
    /\ merge_out' = Merge(<<merge_out>>)
    /\ mpc' = "remerged"
    /\ UNCHANGED first_out
    /\ UNCHANGED <<redactionVars, verificationVars, audioVars, objectVars, workerVars,
                   imageVars, downloadVars>>

\* merger.merge(nlp_entities, regex_entities): the same lists, the other way round
CallMergeSwapped ==
    /\ mpc = "merged"
    /\ entity_lists' = Reverse(entity_lists)
    /\ merge_out' = Merge(Reverse(entity_lists))
    /\ mpc' = "swapped"
    /\ UNCHANGED first_out
    /\ UNCHANGED <<redactionVars, verificationVars, audioVars, objectVars, workerVars,
                   imageVars, downloadVars>>

MergerNext == CallMerge \/ CallMergeAgain \/ CallMergeSwapped

MergerSpec == MergerInit /\ [][MergerNext]_vars

-----------------------------------------------------------------------------
(* RedactionEngine: the calls *)

\* "a@b.com and c@d.com" with its two EMAIL entities at their offsets
ExampleText ==
    <<"a", "@", "b", ".", "c", "o", "m", " ", "a", "n", "d", " ",
      "c", "@", "d", ".", "c", "o", "m">>

TextEntity(txt, type, s, e) ==
    [entity_type |-> type, value |-> Slice(txt, s, e), start |-> s, end |-> e,
     confidence |-> 95, source |-> "regex"]

ExampleEntities == <<TextEntity(ExampleText, EMAIL, 0, 7), TextEntity(ExampleText, EMAIL, 12, 19)>>

\* A short text in which the same value occurs at several offsets
ShortGlyphs == <<"a", "b">>
ShortText == [i \in 1..MaxTextLen |-> ShortGlyphs[((i - 1) % Len(ShortGlyphs)) + 1]]

\* The entities a caller can report in ShortText: any span 0 <= start < end <=
\* len(text), the value being the text of the span; EMAIL has a generator in
\* FAKER_MAP, EVENT has none.
ShortSpans == {sp \in (0..MaxTextLen) \X (0..MaxTextLen) : sp[1] < sp[2]}

ShortEntities ==
    {TextEntity(ShortText, type, sp[1], sp[2]) : type \in {EMAIL, EVENT}, sp \in ShortSpans}

\* The (text, entities) arguments of a call
RedactInputs ==
    {<<ExampleText, ExampleEntities>>} \cup
    {<<ShortText, ents>> : ents \in ListsUpTo(ShortEntities, MaxBatch)}

\* "blur" is a name redact does not know
Strategies == KnownStrategies \cup {"blur"}

\* What the generator calls of one redact call do; only _anonymize calls one
OutcomesFor(ents, strat) ==
    IF strat = "anonymize"
    THEN [1..Len(ents) -> GeneratorOutcomes]
    ELSE {[i \in 1..Len(ents) |-> <<"raises", <<>>>>]}

\* redacted_text, updated = engine.redact(txt, ents, strat)
DoRedact(txt, ents, strat) ==
    /\ \E outcomes \in OutcomesFor(ents, strat) :
            LET r == Redact(txt, ents, strat, anonymization_cache, outcomes)
            IN  /\ redacted_text' = r.redacted_text
                /\ updated_entities' = r.updated_entities
                /\ anonymization_cache' = r.cache
                /\ issued' = IF strat = "anonymize"
                             THEN issued \cup
                                  {<<CacheKey(r.updated_entities[i]),
                                     r.updated_entities[i].redacted_value>> :
                                        i \in 1..Len(r.updated_entities)}
                             ELSE issued
                /\ generator_log' =
                        IF strat = "anonymize"
                        THEN LET in_order == SortByStartDesc(ents)
                                 misses ==
                                    {i \in 1..Len(in_order) :
                                        /\ CacheKey(in_order[i]) \notin DOMAIN anonymization_cache
                                        /\ \A j \in 1..(i - 1) :
                                                CacheKey(in_order[j]) # CacheKey(in_order[i])}
                             IN  generator_log \cup
                                 {<<in_order[i].entity_type, in_order[i].value,
                                    IF in_order[i].entity_type \in FAKER_MAP
                                    THEN outcomes[i][1] ELSE "none",
                                    r.cache[CacheKey(in_order[i])]>> : i \in misses}
                        ELSE generator_log
    /\ text' = txt
    /\ entities' = ents
    /\ strategy' = strat
    /\ ncalls' = ncalls + 1
    /\ rpc' = "returned"
    /\ UNCHANGED <<mergerVars, verificationVars, audioVars, objectVars, workerVars,
                   imageVars, downloadVars>>

\* A fresh engine and the arguments of the one call made on it
RedactionInit ==
    /\ MergerIdle
    /\ VerificationIdle
    /\ AudioIdle
    /\ ObjectsIdle
    /\ WorkersIdle
    /\ ImageIdle
    /\ DownloadsIdle
    /\ \E inp \in RedactInputs, strat \in Strategies :
            /\ text = inp[1]
            /\ entities = inp[2]
            /\ strategy = strat
    /\ redacted_text = <<>>
    /\ updated_entities = <<>>
    /\ anonymization_cache = <<>>
    /\ issued = {}
    /\ generator_log = {}
    /\ ncalls = 0
    /\ rpc = "pending"

\* engine.redact(text, entities, strategy) with the arguments chosen
RedactPending ==
    /\ rpc = "pending"
    /\ DoRedact(text, entities, strategy)

RedactionNext == RedactPending

RedactionSpec == RedactionInit /\ [][RedactionNext]_vars

-----------------------------------------------------------------------------
(* RedactionEngine: one engine serving several calls (the orchestrator owns a *)
(* single RedactionEngine for the life of the process)                       *)

\* The text of the requests, and the entities reported in it: each character
\* on its own, so the value "a" occurs at two offsets
EngineText == <<"a", "b", "a">>

EngineEntities ==
    {TextEntity(EngineText, type, s, s + 1) : type \in {EMAIL, EVENT}, s \in 0..(Len(EngineText) - 1)}

EngineInputs == {<<EngineText, ents>> : ents \in ListsUpTo(EngineEntities, MaxBatch)}

EngineInit ==
    MergerIdle /\ RedactionIdle /\ VerificationIdle /\ AudioIdle /\ ObjectsIdle /\ WorkersIdle
    /\ ImageIdle /\ DownloadsIdle

\* A request: engine.redact(...) on the shared engine
RedactAny ==
    /\ rpc = "idle"
    /\ ncalls < MaxCalls
    /\ \E inp \in EngineInputs, strat \in Strategies : DoRedact(inp[1], inp[2], strat)

\* The caller takes the returned tuple away; the engine keeps only its cache
TakeResult ==
    /\ rpc = "returned"
    /\ text' = <<>>
    /\ entities' = <<>>
    /\ strategy' = "none"
    /\ redacted_text' = <<>>
    /\ updated_entities' = <<>>
    /\ rpc' = "idle"
    /\ UNCHANGED <<anonymization_cache, issued, generator_log, ncalls>>
    /\ UNCHANGED <<mergerVars, verificationVars, audioVars, objectVars, workerVars,
                   imageVars, downloadVars>>

\* engine.clear_cache(): self._anonymization_cache.clear()
ClearCache ==
    /\ rpc = "idle"
    /\ anonymization_cache' = <<>>
    /\ issued' = {}
    /\ generator_log' = {}
    /\ UNCHANGED <<text, entities, strategy, redacted_text, updated_entities, ncalls, rpc>>
    /\ UNCHANGED <<mergerVars, verificationVars, audioVars, objectVars, workerVars,
                   imageVars, downloadVars>>

EngineNext == RedactAny \/ TakeResult \/ ClearCache

EngineSpec == EngineInit /\ [][EngineNext]_vars

-----------------------------------------------------------------------------
(* The shared RedactionEngine under the worker threads of the router *)

\* The entities the concurrent requests anonymize: the same key can come up in
\* two requests
SharedEntities == {TextEntity(EngineText, EMAIL, 0, 1), TextEntity(EngineText, EMAIL, 1, 2),
                   TextEntity(EngineText, EVENT, 0, 1)}

ConcurrentInit == MergerIdle /\ RedactionIdle /\ VerificationIdle /\ AudioIdle
                  /\ ObjectsIdle /\ WorkersIdle /\ ImageIdle /\ DownloadsIdle

\* A worker of the pool, running a request with strategy anonymize, calls
\* _anonymize(entity)
EnterAnonymize(w) ==
    /\ workers[w].pc = "idle"
    /\ ncalls < MaxCalls
    /\ \E entity \in SharedEntities :
            workers' = [workers EXCEPT ![w] = [IdleWorker EXCEPT !.pc = "lookup",
                                                                 !.entity = entity]]
    /\ ncalls' = ncalls + 1
    /\ UNCHANGED <<text, entities, strategy, redacted_text, updated_entities,
                   anonymization_cache, issued, generator_log, rpc>>
    /\ UNCHANGED <<mergerVars, verificationVars, audioVars, objectVars, imageVars, downloadVars>>

\* if cache_key in self._anonymization_cache: return self._anonymization_cache[cache_key]
LookupCache(w) ==
    /\ workers[w].pc = "lookup"
    /\ LET cache_key == CacheKey(workers[w].entity)
       IN  IF cache_key \in DOMAIN anonymization_cache
           THEN /\ workers' = [workers EXCEPT ![w].pc = "returned",
                                              ![w].returned = anonymization_cache[cache_key]]
                /\ issued' = issued \cup {<<cache_key, anonymization_cache[cache_key]>>}
           ELSE /\ workers' = [workers EXCEPT ![w].pc = "generate"]
                /\ UNCHANGED issued
    /\ UNCHANGED <<text, entities, strategy, redacted_text, updated_entities,
                   anonymization_cache, generator_log, ncalls, rpc>>
    /\ UNCHANGED <<mergerVars, verificationVars, audioVars, objectVars, imageVars, downloadVars>>

\* generator = self.FAKER_MAP.get(entity_type) ... synthetic = ...
GenerateSynthetic(w) ==
    /\ workers[w].pc = "generate"
    /\ \E outcome \in GeneratorOutcomes :
            workers' = [workers EXCEPT ![w].pc = "store",
                                       ![w].synthetic = Generate(workers[w].entity, outcome)]
    /\ UNCHANGED redactionVars
    /\ UNCHANGED <<mergerVars, verificationVars, audioVars, objectVars, imageVars, downloadVars>>

\* self._anonymization_cache[cache_key] = synthetic; return synthetic
StoreSynthetic(w) ==
    /\ workers[w].pc = "store"
    /\ LET cache_key == CacheKey(workers[w].entity)
       IN  /\ anonymization_cache' =
                [k \in DOMAIN anonymization_cache \cup {cache_key} |->
                    IF k = cache_key THEN workers[w].synthetic ELSE anonymization_cache[k]]
           /\ issued' = issued \cup {<<cache_key, workers[w].synthetic>>}
    /\ workers' = [workers EXCEPT ![w].pc = "returned", ![w].returned = workers[w].synthetic]
    /\ UNCHANGED <<text, entities, strategy, redacted_text, updated_entities,
                   generator_log, ncalls, rpc>>
    /\ UNCHANGED <<mergerVars, verificationVars, audioVars, objectVars, imageVars, downloadVars>>

\* The caller has the replacement; the worker is free for the next request
LeaveAnonymize(w) ==
    /\ workers[w].pc = "returned"
    /\ workers' = [workers EXCEPT ![w] = IdleWorker]
    /\ UNCHANGED redactionVars
    /\ UNCHANGED <<mergerVars, verificationVars, audioVars, objectVars, imageVars, downloadVars>>

ConcurrentNext ==
    \E w \in 1..MaxWorkers :
        \/ EnterAnonymize(w)
        \/ LookupCache(w)
        \/ GenerateSynthetic(w)
        \/ StoreSynthetic(w)
        \/ LeaveAnonymize(w)

ConcurrentSpec == ConcurrentInit /\ [][ConcurrentNext]_vars

-----------------------------------------------------------------------------
(* VerificationEngine: one call of verify *)

\* No generator runs in a call with strategy tag_replace
NoOutcomes(ents) == [i \in 1..Len(ents) |-> <<"raises", <<>>>>]

\* "[EMAIL] and [EMAIL]": the example text with both addresses tag-replaced
TaggedText ==
    Redact(ExampleText, ExampleEntities, "tag_replace", <<>>,
           NoOutcomes(ExampleEntities)).redacted_text

\* "a@b.com and [EMAIL]": the first address was not detected
LeakedText ==
    Redact(ExampleText, <<ExampleEntities[2]>>, "tag_replace", <<>>,
           NoOutcomes(<<ExampleEntities[2]>>)).redacted_text

VerifyTexts == {TaggedText, LeakedText}

\* The spans a detector can match in a text: its words (the maximal runs of
\* characters other than the space)
WordSpans(txt) ==
    {sp \in (0..Len(txt)) \X (0..Len(txt)) :
        /\ sp[1] < sp[2]
        /\ \A i \in (sp[1] + 1)..sp[2] : txt[i] # " "
        /\ sp[1] = 0 \/ txt[sp[1]] = " "
        /\ sp[2] = Len(txt) \/ txt[sp[2] + 1] = " "}

\* What detect(text) of a detector can return: entities whose value is the
\* text of the span, in any order
Findings(txt, src) ==
    {[entity_type |-> EMAIL, value |-> Slice(txt, sp[1], sp[2]), start |-> sp[1],
      end |-> sp[2], confidence |-> 90, source |-> src] : sp \in WordSpans(txt)}

DetectorOutputs(txt, src) == ListsUpTo(Findings(txt, src), MaxFindings)

VerificationInit ==
    /\ MergerIdle
    /\ RedactionIdle
    /\ AudioIdle
    /\ ObjectsIdle
    /\ WorkersIdle
    /\ ImageIdle
    /\ DownloadsIdle
    /\ scanned_text \in VerifyTexts
    /\ max_retries \in 0..MaxRetries
    /\ nlp_available \in BOOLEAN
    /\ attempt = 0
    /\ regex_entities = <<>>
    /\ nlp_entities = <<>>
    /\ result = InitialResult
    /\ vpc = "Scanning"
    /\ scan_log = <<>>
    /\ scan_findings = <<>>

\* One iteration of the loop of verify: both detectors scan the text, the
\* artifacts are filtered out, the result is updated; a scan that leaves
\* nothing breaks out of the loop and verify returns
Scan ==
    /\ vpc = "Scanning"
    /\ RangeHasNext(attempt, max_retries)
    /\ \E found_regex \in DetectorOutputs(scanned_text, "regex"),
          found_nlp \in IF nlp_available THEN DetectorOutputs(scanned_text, "nlp") ELSE {<<>>} :
            LET real_entities == RealEntities(found_regex, scanned_text)
                all_residual == real_entities \o RealEntities(found_nlp, scanned_text)
            IN  /\ regex_entities' = found_regex
                /\ nlp_entities' = found_nlp
                /\ result' = ScanResult(result, attempt, all_residual)
                /\ scan_log' = Append(scan_log, all_residual # <<>>)
                /\ scan_findings' = Append(scan_findings, all_residual)
                /\ IF Breaks(all_residual)
                   THEN vpc' = "Done" /\ attempt' = attempt
                   ELSE vpc' = vpc /\ attempt' = attempt + 1
    /\ UNCHANGED <<scanned_text, max_retries, nlp_available>>
    /\ UNCHANGED <<mergerVars, redactionVars, audioVars, objectVars, workerVars, imageVars, downloadVars>>

\* range(max_retries) is exhausted: return result
ReturnResult ==
    /\ vpc = "Scanning"
    /\ ~RangeHasNext(attempt, max_retries)
    /\ vpc' = "Done"
    /\ UNCHANGED <<scanned_text, max_retries, nlp_available, attempt,
                   regex_entities, nlp_entities, result, scan_log, scan_findings>>
    /\ UNCHANGED <<mergerVars, redactionVars, audioVars, objectVars, workerVars, imageVars, downloadVars>>

VerificationNext == Scan \/ ReturnResult

VerificationSpec == VerificationInit /\ [][VerificationNext]_vars

\* verify is straight-line code around its loop: a step that can be taken is
\* taken
VerificationFairSpec == VerificationSpec /\ WF_vars(VerificationNext)

-----------------------------------------------------------------------------
(* AudioRedactor: a call of _merge_overlapping *)

\* The instants (in ms) at which a segment can start or end
Instants == {100, 180, 200, 250, 300}

\* The segments _map_pii_to_timestamps can hand over: an entity's fields and
\* a time range that does not end before it starts
SegmentInputs ==
    {[entity_type |-> EMAIL, value |-> <<"v">>, confidence |-> 90,
      start_ms |-> range[1], end_ms |-> range[2]] :
        range \in {r \in Instants \X Instants : r[1] <= r[2]}}

RegionInit ==
    /\ MergerIdle
    /\ RedactionIdle
    /\ VerificationIdle
    /\ ObjectsIdle
    /\ WorkersIdle
    /\ ImageIdle
    /\ DownloadsIdle
    /\ words_with_ts = <<>>
    /\ full_text = <<>>
    /\ pii_entities = <<>>
    /\ pii_segments \in ListsUpTo(SegmentInputs, MaxSegments)
    /\ merged_segments = <<>>
    /\ redacted_transcript = <<>>
    /\ audit_log = <<>>
    /\ entities_found = <<>>
    /\ apc = "segments"

\* merged_segments = self._merge_overlapping(pii_segments)
CallMergeOverlapping ==
    /\ apc = "segments"
    /\ merged_segments' = MergeOverlapping(pii_segments)
    /\ apc' = "merged"
    /\ UNCHANGED <<words_with_ts, full_text, pii_entities, pii_segments,
                   redacted_transcript, audit_log, entities_found>>
    /\ UNCHANGED <<mergerVars, redactionVars, verificationVars, objectVars, workerVars,
                   imageVars, downloadVars>>

RegionNext == CallMergeOverlapping

RegionSpec == RegionInit /\ [][RegionNext]_vars

-----------------------------------------------------------------------------
(* The orchestrator's merge call and redact call, on objects *)

\* The strategies that read nothing but the entity
StatelessStrategies == {"mask", "tag_replace", "hash"}

\* Detections within the first characters of the document
NearDetections(kinds, src) == {d \in DetectionsOf(kinds, src) : d.end <= MaxPos \div 2}

\* The detectors returned two lists of fresh dicts: the regex list is list 1,
\* the NLP list is list 2
ObjectInit ==
    /\ MergerIdle
    /\ RedactionIdle
    /\ VerificationIdle
    /\ AudioIdle
    /\ \E regex_list \in ListsUpTo(NearDetections(RegexKinds, "regex"), MaxRegexHits),
          nlp_list \in ListsUpTo(NearDetections(NlpKinds, "nlp"), MaxNlpHits) :
            /\ obj_dicts = regex_list \o nlp_list
            /\ obj_lists = <<[i \in 1..Len(regex_list) |-> i],
                             [i \in 1..Len(nlp_list) |-> Len(regex_list) + i]>>
    /\ dicts_before = obj_dicts
    /\ lists_before = obj_lists
    /\ call_args = <<>>
    /\ call_ret = 0
    /\ call_text = DocText
    /\ hpc = "ready"
    /\ WorkersIdle
    /\ ImageIdle
    /\ DownloadsIdle

\* merged = self.entity_merger.merge(regex_entities, nlp_entities)
ObjectCallMerge ==
    /\ hpc = "ready"
    /\ LET r == RefMerge([dicts |-> obj_dicts, lists |-> obj_lists], <<1, 2>>)
       IN  /\ obj_dicts' = r.heap.dicts
           /\ obj_lists' = r.heap.lists
           /\ call_ret' = r.ret
    /\ dicts_before' = obj_dicts
    /\ lists_before' = obj_lists
    /\ call_args' = <<1, 2>>
    /\ hpc' = "merged"
    /\ UNCHANGED call_text
    /\ UNCHANGED <<mergerVars, redactionVars, verificationVars, audioVars, workerVars,
                   imageVars, downloadVars>>

\* self.redaction_engine.redact(text, merged_entities, strategy)
ObjectCallRedact ==
    /\ hpc = "merged"
    /\ \E strat \in StatelessStrategies :
            LET r == RefRedact([dicts |-> obj_dicts, lists |-> obj_lists],
                               call_text, call_ret, strat)
            IN  /\ obj_dicts' = r.heap.dicts
                /\ obj_lists' = r.heap.lists
                /\ call_ret' = r.ret
                /\ call_text' = r.text
    /\ dicts_before' = obj_dicts
    /\ lists_before' = obj_lists
    /\ call_args' = <<call_ret>>
    /\ hpc' = "redacted"
    /\ UNCHANGED <<mergerVars, redactionVars, verificationVars, audioVars, workerVars,
                   imageVars, downloadVars>>

ObjectNext == ObjectCallMerge \/ ObjectCallRedact

ObjectSpec == ObjectInit /\ [][ObjectNext]_vars

-----------------------------------------------------------------------------
(* AudioRedactor: a call of redact_audio *)

\* The transcript "hi jo x"
AudioText == <<"h", "i", " ", "j", "o", " ", "x">>

\* The word texts a transcription can carry; "z" does not occur in the transcript
WordTexts == {<<"h", "i">>, <<"j", "o">>, <<"x">>, <<"z">>}

\* A word with its start and end time in seconds; the list of words need not
\* be in time order
TimedWords ==
    {[word |-> w, start |-> t[1], end |-> t[2]] :
        w \in WordTexts, t \in {u \in (0..MaxSeconds) \X (0..MaxSeconds) : u[1] < u[2]}}

AudioEntity(kind, s, e, src) ==
    [entity_type |-> kind[1], value |-> Slice(AudioText, s, e), start |-> s, end |-> e,
     confidence |-> kind[2], source |-> src]

\* What the detectors can report in the transcript
AudioRegexFinds ==
    {AudioEntity(<<EMAIL, 95>>, 0, 2, "regex"), AudioEntity(<<EMAIL, 95>>, 3, 5, "regex"),
     AudioEntity(<<PHONE, 60>>, 6, 7, "regex")}

AudioNlpFinds ==
    {AudioEntity(<<PERSON_NAME, 60>>, 1, 4, "nlp"), AudioEntity(<<PERSON_NAME, 60>>, 3, 5, "nlp")}

\* The transcription is done and pii_pipeline_fn (the orchestrator's
\* detect_pii) has returned the merged detections
AudioInit ==
    /\ MergerIdle
    /\ RedactionIdle
    /\ VerificationIdle
    /\ ObjectsIdle
    /\ WorkersIdle
    /\ ImageIdle
    /\ DownloadsIdle
    /\ words_with_ts \in ListsUpTo(TimedWords, MaxWords)
    /\ full_text = AudioText
    /\ \E regex_list \in ListsUpTo(AudioRegexFinds, MaxRegexHits),
          nlp_list \in ListsUpTo(AudioNlpFinds, MaxNlpHits) :
            pii_entities = Merge(<<regex_list, nlp_list>>)
    /\ pii_segments = <<>>
    /\ merged_segments = <<>>
    /\ redacted_transcript = <<>>
    /\ audit_log = <<>>
    /\ entities_found = <<>>
    /\ apc = "ready"

\* redact_audio from the mapping of the entities to its return
RedactAudio ==
    /\ apc = "ready"
    /\ pii_segments' = MapPiiToTimestamps(pii_entities, words_with_ts, full_text)
    /\ merged_segments' = MergeOverlapping(pii_segments')
    /\ redacted_transcript' = BuildRedactedTranscript(full_text, pii_entities)
    /\ audit_log' = AuditLogOf(merged_segments')
    /\ entities_found' = pii_entities
    /\ apc' = "returned"
    /\ UNCHANGED <<words_with_ts, full_text, pii_entities>>
    /\ UNCHANGED <<mergerVars, redactionVars, verificationVars, objectVars, workerVars,
                   imageVars, downloadVars>>

\* if not self.is_available(): return {"error": ...}
AudioUnavailable ==
    /\ apc = "ready"
    /\ apc' = "error"
    /\ UNCHANGED <<words_with_ts, full_text, pii_entities, pii_segments, merged_segments,
                   redacted_transcript, audit_log, entities_found>>
    /\ UNCHANGED <<mergerVars, redactionVars, verificationVars, objectVars, workerVars,
                   imageVars, downloadVars>>

AudioNext == RedactAudio \/ AudioUnavailable

AudioSpec == AudioInit /\ [][AudioNext]_vars

-----------------------------------------------------------------------------
(* ImageRedactor: a call of redact_image *)

\* What the OCR can read in a box
BoxTexts == {<<"j", "o">>, <<"x">>}

\* An OCR result (bbox, text, conf); the bbox is the number of a place in
\* the image
OcrBoxes == {[bbox |-> b, text |-> t, conf |-> 90] : b \in 1..MaxBoxes, t \in BoxTexts}

\* What the detectors can report in the text read from the image
ImageFinds(txt, kind, src) ==
    {[entity_type |-> kind[1], value |-> Slice(txt, sp[1], sp[2]), start |-> sp[1],
      end |-> sp[2], confidence |-> kind[2], source |-> src] :
        sp \in {q \in (0..Len(txt)) \X (0..Len(txt)) : q[1] < q[2]}}

\* The image is loaded and _run_ocr has returned
ImageInit ==
    /\ MergerIdle
    /\ RedactionIdle
    /\ VerificationIdle
    /\ AudioIdle
    /\ ObjectsIdle
    /\ WorkersIdle
    /\ DownloadsIdle
    /\ ocr_results \in ListsUpTo(OcrBoxes, MaxBoxes)
    /\ char_to_box_map = <<>>
    /\ ocr_text = <<>>
    /\ image_entities = <<>>
    /\ redaction_regions = <<>>
    /\ image_audit_log = <<>>
    /\ total_entities = 0
    /\ ipc = "ocr"

\* if not ocr_results: return {..., "audit_log": [], "total_entities": 0, ...}
ReturnNoText ==
    /\ ipc = "ocr"
    /\ ocr_results = <<>>
    /\ ipc' = "returned"
    /\ UNCHANGED <<ocr_results, char_to_box_map, ocr_text, image_entities,
                   redaction_regions, image_audit_log, total_entities>>
    /\ UNCHANGED <<mergerVars, redactionVars, verificationVars, audioVars, objectVars,
                   workerVars, downloadVars>>

\* redact_image from the joining of the OCR text to its return;
\* pii_pipeline_fn is the orchestrator's detect_pii
RedactImage ==
    /\ ipc = "ocr"
    /\ ocr_results # <<>>
    /\ LET built == CharToBoxMapLoop(ocr_results, 1, <<>>, <<>>)
           full == JoinWithSpaces(built.parts)
       IN  /\ char_to_box_map' = built.map
           /\ ocr_text' = full
           /\ \E regex_list \in ListsUpTo(ImageFinds(full, <<EMAIL, 95>>, "regex"), MaxRegexHits),
                 nlp_list \in ListsUpTo(ImageFinds(full, <<PERSON_NAME, 60>>, "nlp"), MaxNlpHits) :
                    image_entities' = Merge(<<regex_list, nlp_list>>)
    /\ redaction_regions' = RedactionRegions(image_entities', char_to_box_map')
    /\ image_audit_log' = ImageAuditLog(redaction_regions')
    /\ total_entities' = Len(image_audit_log')
    /\ ipc' = "returned"
    /\ UNCHANGED ocr_results
    /\ UNCHANGED <<mergerVars, redactionVars, verificationVars, audioVars, objectVars,
                   workerVars, downloadVars>>

ImageNext == ReturnNoText \/ RedactImage

ImageSpec == ImageInit /\ [][ImageNext]_vars

-----------------------------------------------------------------------------
(* DownloadManager: get_job in the request handlers, save_file in the pool's *)
(* workers, _cleanup_expired in the background thread                        *)

\* The expiry_seconds the manager is constructed with
expiry_seconds == 2

\* str(uuid.uuid4()): the ids are numbered in the order they are drawn
JobIds == 1..MaxJobs

\* self.jobs without the entry of job_id
WithoutJob(job_id) == [j \in DOMAIN jobs \ {job_id} |-> jobs[j]]

\* list(self.jobs.items()): a dict lists its items in insertion order, which
\* is the order of the ids
RECURSIVE ItemsFrom(_)
ItemsFrom(job_id) ==
    IF job_id > MaxJobs THEN <<>>
    ELSE IF job_id \in DOMAIN jobs
         THEN <<<<job_id, jobs[job_id]>>>> \o ItemsFrom(job_id + 1)
         ELSE ItemsFrom(job_id + 1)

\* save_file up to the end of the with block: the file is on disk
SaveWriteFile ==
    /\ saver.pc = "idle"
    /\ saver.job_id < MaxJobs
    /\ saver' = [pc |-> "written", job_id |-> saver.job_id + 1]
    /\ files' = files \cup {saver.job_id + 1}
    /\ UNCHANGED <<jobs, metadata_file, clock, getter, cleaner, raised>>
    /\ UNCHANGED <<mergerVars, redactionVars, verificationVars, audioVars, objectVars,
                   workerVars, imageVars>>

\* save_file from self.jobs[job_id] = {...} to its return
SaveRegisterJob ==
    /\ saver.pc = "written"
    /\ jobs' = [j \in DOMAIN jobs \cup {saver.job_id} |->
                    IF j = saver.job_id
                    THEN [filepath |-> saver.job_id, created_at |-> clock]
                    ELSE jobs[j]]
    /\ metadata_file' = DOMAIN jobs'
    /\ saver' = [saver EXCEPT !.pc = "idle"]
    /\ UNCHANGED <<files, clock, getter, cleaner, raised>>
    /\ UNCHANGED <<mergerVars, redactionVars, verificationVars, audioVars, objectVars,
                   workerVars, imageVars>>

\* get_job(job_id): job = self.jobs.get(job_id); without a job, return None
GetJobLookup ==
    /\ getter.pc = "idle"
    /\ \E job_id \in JobIds :
            getter' = IF job_id \in DOMAIN jobs
                      THEN [IdleGetter EXCEPT !.pc = "found", !.job_id = job_id,
                                              !.job = <<jobs[job_id]>>,
                                              !.called_at = clock]
                      ELSE [IdleGetter EXCEPT !.pc = "returned", !.job_id = job_id,
                                              !.called_at = clock]
    /\ UNCHANGED <<jobs, files, metadata_file, clock, saver, cleaner, raised>>
    /\ UNCHANGED <<mergerVars, redactionVars, verificationVars, audioVars, objectVars,
                   workerVars, imageVars>>

\* if os.path.exists(job["filepath"])
GetJobCheckFile ==
    /\ getter.pc = "found"
    /\ getter' = [getter EXCEPT
                    !.pc = IF getter.job[1].filepath \in files THEN "exists" ELSE "missing"]
    /\ UNCHANGED <<jobs, files, metadata_file, clock, saver, cleaner, raised>>
    /\ UNCHANGED <<mergerVars, redactionVars, verificationVars, audioVars, objectVars,
                   workerVars, imageVars>>

\* return job
GetJobReturnJob ==
    /\ getter.pc = "exists"
    /\ getter' = [getter EXCEPT !.pc = "returned", !.ret = getter.job,
                                 !.file_exists = getter.job[1].filepath \in files]
    /\ UNCHANGED <<jobs, files, metadata_file, clock, saver, cleaner, raised>>
    /\ UNCHANGED <<mergerVars, redactionVars, verificationVars, audioVars, objectVars,
                   workerVars, imageVars>>

\* del self.jobs[job_id]; self._save_metadata(); return None.  del raises
\* KeyError when the entry is gone
GetJobDropMissing ==
    /\ getter.pc = "missing"
    /\ IF getter.job_id \in DOMAIN jobs
       THEN /\ jobs' = WithoutJob(getter.job_id)
            /\ metadata_file' = DOMAIN jobs'
            /\ raised' = raised
       ELSE /\ raised' = raised \cup {"get_job"}
            /\ UNCHANGED <<jobs, metadata_file>>
    /\ getter' = [getter EXCEPT !.pc = "returned"]
    /\ UNCHANGED <<files, clock, saver, cleaner>>
    /\ UNCHANGED <<mergerVars, redactionVars, verificationVars, audioVars, objectVars,
                   workerVars, imageVars>>

\* The handler has used the value get_job returned; the next request can come
GetJobDone ==
    /\ getter.pc = "returned"
    /\ getter' = IdleGetter
    /\ UNCHANGED <<jobs, files, metadata_file, clock, saver, cleaner, raised>>
    /\ UNCHANGED <<mergerVars, redactionVars, verificationVars, audioVars, objectVars,
                   workerVars, imageVars>>

\* time.sleep(300) is over: now = time.time(); expired_ids = []; the loop
\* takes its copy list(self.jobs.items())
CleanupWake ==
    /\ cleaner.pc = "sleeping"
    /\ cleaner' = [pc |-> IF ItemsFrom(1) = <<>> THEN "deleting" ELSE "scanning",
                   now |-> clock, items |-> ItemsFrom(1), expired_ids |-> <<>>, next |-> 1]
    /\ UNCHANGED <<jobs, files, metadata_file, clock, getter, saver, raised>>
    /\ UNCHANGED <<mergerVars, redactionVars, verificationVars, audioVars, objectVars,
                   workerVars, imageVars>>

\* One iteration of the first loop of _cleanup_expired
CleanupScanItem ==
    /\ cleaner.pc = "scanning"
    /\ LET job_id == cleaner.items[1][1]
           meta == cleaner.items[1][2]
           is_expired == cleaner.now - meta.created_at > expiry_seconds
       IN  /\ files' = IF is_expired THEN files \ {meta.filepath} ELSE files
           /\ cleaner' = [cleaner EXCEPT
                            !.items = Tail(cleaner.items),
                            !.expired_ids = IF is_expired
                                            THEN Append(cleaner.expired_ids, job_id)
                                            ELSE cleaner.expired_ids,
                            !.pc = IF Len(cleaner.items) = 1 THEN "deleting" ELSE "scanning"]
    /\ UNCHANGED <<jobs, metadata_file, clock, getter, saver, raised>>
    /\ UNCHANGED <<mergerVars, redactionVars, verificationVars, audioVars, objectVars,
                   workerVars, imageVars>>

\* One iteration of for jid in expired_ids: del self.jobs[jid].  A KeyError
\* leaves _cleanup_expired; _cleanup_loop logs it and sleeps again
CleanupDeleteJob ==
    /\ cleaner.pc = "deleting"
    /\ cleaner.next <= Len(cleaner.expired_ids)
    /\ LET jid == cleaner.expired_ids[cleaner.next]
       IN  IF jid \in DOMAIN jobs
           THEN /\ jobs' = WithoutJob(jid)
                /\ cleaner' = [cleaner EXCEPT !.next = cleaner.next + 1]
                /\ raised' = raised
           ELSE /\ raised' = raised \cup {"_cleanup_expired"}
                /\ cleaner' = SleepingCleaner
                /\ jobs' = jobs
    /\ UNCHANGED <<files, metadata_file, clock, getter, saver>>
    /\ UNCHANGED <<mergerVars, redactionVars, verificationVars, audioVars, objectVars,
                   workerVars, imageVars>>

\* if expired_ids: self._save_metadata(); the thread sleeps again
CleanupFinish ==
    /\ cleaner.pc = "deleting"
    /\ cleaner.next > Len(cleaner.expired_ids)
    /\ metadata_file' = IF cleaner.expired_ids # <<>> THEN DOMAIN jobs ELSE metadata_file
    /\ cleaner' = SleepingCleaner
    /\ UNCHANGED <<jobs, files, clock, getter, saver, raised>>
    /\ UNCHANGED <<mergerVars, redactionVars, verificationVars, audioVars, objectVars,
                   workerVars, imageVars>>

\* A second passes
Tick ==
    /\ clock < MaxClock
    /\ clock' = clock + 1
    /\ UNCHANGED <<jobs, files, metadata_file, getter, saver, cleaner, raised>>
    /\ UNCHANGED <<mergerVars, redactionVars, verificationVars, audioVars, objectVars,
                   workerVars, imageVars>>

DownloadInit ==
    /\ MergerIdle
    /\ RedactionIdle
    /\ VerificationIdle
    /\ AudioIdle
    /\ ObjectsIdle
    /\ WorkersIdle
    /\ ImageIdle
    /\ DownloadsIdle

DownloadNext ==
    \/ SaveWriteFile
    \/ SaveRegisterJob
    \/ GetJobLookup
    \/ GetJobCheckFile
    \/ GetJobReturnJob
    \/ GetJobDropMissing
    \/ GetJobDone
    \/ CleanupWake
    \/ CleanupScanItem
    \/ CleanupDeleteJob
    \/ CleanupFinish
    \/ Tick

DownloadSpec == DownloadInit /\ [][DownloadNext]_vars

-----------------------------------------------------------------------------
(* merge and redact called with entities that may be malformed *)

\* Spans of ShortText that are empty or reversed (start >= end), or that end
\* one character beyond the text
MalformedSpans ==
    {sp \in (0..MaxTextLen) \X (0..(MaxTextLen + 1)) : sp[1] >= sp[2] \/ sp[2] > MaxTextLen}

MalformedEntities == {TextEntity(ShortText, EMAIL, sp[1], sp[2]) : sp \in MalformedSpans}

\* One list of entities, handed to merge and handed to redact
MalformedInit ==
    /\ VerificationIdle
    /\ AudioIdle
    /\ ObjectsIdle
    /\ WorkersIdle
    /\ ImageIdle
    /\ DownloadsIdle
    /\ \E ents \in ListsUpTo(ShortEntities \cup MalformedEntities, MaxBatch),
          strat \in Strategies :
            /\ text = ShortText
            /\ entities = ents
            /\ strategy = strat
            /\ entity_lists = <<ents>>
    /\ merge_out = <<>>
    /\ first_out = <<>>
    /\ mpc = "ready"
    /\ redacted_text = <<>>
    /\ updated_entities = <<>>
    /\ anonymization_cache = <<>>
    /\ issued = {}
    /\ generator_log = {}
    /\ ncalls = 0
    /\ rpc = "pending"

MalformedNext == CallMerge \/ RedactPending

MalformedSpec == MalformedInit /\ [][MalformedNext]_vars

-----------------------------------------------------------------------------
(* RedactionOrchestrator.redact_text: detect_pii, then redact the merged list *)

\* A text of three words of six letters and a shorter one; none of its
\* letters occurs in a tag, a mask, a hash or a synthetic value
PipelineText ==
    <<"g", "h", "i", "j", "k", "l", " ", "m", "n", "o", "p", "q", "r", " ",
      "s", "t", "u", "v", "w", "y", " ", "z", "z">>

\* The offsets at which a word of PipelineText starts
WordStarts == {0, 7, 14, 21}

\* The detectors report runs of whole words, each word with the space after it
PipelineSpans == {sp \in WordStarts \X WordStarts : sp[1] < sp[2]}

PipelineDetection(kind, s, e, src) ==
    [entity_type |-> kind[1], value |-> Slice(PipelineText, s, e), start |-> s, end |-> e,
     confidence |-> kind[2], source |-> src, description |-> DescriptionOf(kind, src)]

PipelineDetections(kinds, src) ==
    {PipelineDetection(k, sp[1], sp[2], src) : k \in kinds, sp \in PipelineSpans}

\* redact_text(text, strategy): the detectors have returned their lists
PipelineInit ==
    /\ VerificationIdle
    /\ AudioIdle
    /\ ObjectsIdle
    /\ WorkersIdle
    /\ ImageIdle
    /\ DownloadsIdle
    /\ \E regex_list \in ListsUpTo(PipelineDetections(RegexKinds, "regex"), MaxRegexHits),
          nlp_list \in ListsUpTo(PipelineDetections(NlpKinds, "nlp"), MaxNlpHits) :
            entity_lists = <<regex_list, nlp_list>>
    /\ merge_out = <<>>
    /\ first_out = <<>>
    /\ mpc = "ready"
    /\ text = PipelineText
    /\ entities = <<>>
    /\ strategy \in Strategies
    /\ redacted_text = <<>>
    /\ updated_entities = <<>>
    /\ anonymization_cache = <<>>
    /\ issued = {}
    /\ generator_log = {}
    /\ ncalls = 0
    /\ rpc = "pending"

\* redacted_text, updated_entities = self.redaction_engine.redact(
\*     text, merged_entities, strategy)
RedactMerged ==
    /\ mpc = "merged"
    /\ rpc = "pending"
    /\ DoRedact(text, merge_out, strategy)

PipelineNext == CallMerge \/ RedactMerged

PipelineSpec == PipelineInit /\ [][PipelineNext]_vars

-----------------------------------------------------------------------------
(* Properties of DownloadManager *)

\* C29: under any interleaving of get_job with the cleanup thread and
\* save_file, get_job returns either None or the metadata of a job whose
\* file exists, and neither get_job nor _cleanup_expired raises.
C29_GetJobSafeUnderInterleaving ==
    /\ raised = {}
    /\ (getter.pc = "returned" /\ getter.ret # <<>>) => getter.file_exists

\* C30: get_job never returns a job whose age (now - created_at) exceeds
\* expiry_seconds: a job that is expired when get_job is called is reported
\* as not found even before the cleanup pass has run.
C30_ExpiredJobNotReturned ==
    (getter.pc = "returned" /\ getter.ret # <<>>) =>
        getter.called_at - getter.ret[1].created_at <= expiry_seconds

-----------------------------------------------------------------------------
(* Properties of ImageRedactor *)

\* The entities that overlap one or more OCR boxes
MappedEntities ==
    {i \in 1..Len(image_entities) :
        \E b \in 1..Len(char_to_box_map) :
            OverlapsBox(image_entities[i], char_to_box_map[b])}

\* C21: the coordinate mapping produces exactly one region per entity that
\* overlaps one or more anchors: redact_image has one redaction region and
\* one audit_log entry per such entity, so that the reported total_entities
\* is the number of entities mapped.
C21_OneRegionPerEntity ==
    ipc = "returned" =>
        /\ Len(redaction_regions) = Cardinality(MappedEntities)
        /\ Len(image_audit_log) = Cardinality(MappedEntities)
        /\ total_entities = Cardinality(MappedEntities)

-----------------------------------------------------------------------------
(* Properties of EntityMerger *)

\* The spans [start, end) of a and b share a character
Intersect(a, b) == Max(a.start, b.start) < Min(a.end, b.end)

\* C1: merge is idempotent on content: merging the list merge returned gives
\* that same list, field by field.
C1_MergeIdempotent == mpc = "remerged" => merge_out = first_out

\* C2: merge is insensitive to the order of its input lists: merge(B, A)
\* returns the entities merge(A, B) returned.
C2_MergeOrderInsensitive == mpc = "swapped" => merge_out = first_out

\* The call merged exactly two entities that overlap significantly
TwoCombined ==
    /\ mpc \in {"merged", "remerged"}
    /\ Len(Flatten(entity_lists)) = 2
    /\ SignificantOverlap(Flatten(entity_lists)[1], Flatten(entity_lists)[2])

C16_CombinedFromHigherConfidence ==
    (/\ mpc # "ready"
     /\ Len(Flatten(entity_lists)) = 2
     /\ SignificantOverlap(Flatten(entity_lists)[1], Flatten(entity_lists)[2])) =>
        LET in_order == SortByMergeKey(Flatten(entity_lists))
            existing == in_order[1]
            candidate == in_order[2]
            winner == IF candidate.confidence > existing.confidence
                      THEN candidate ELSE existing
        IN  /\ Len(merge_out) = 1
            /\ merge_out[1].start = Min(existing.start, candidate.start)
            /\ merge_out[1].end = Max(existing.end, candidate.end)
            /\ merge_out[1].entity_type = winner.entity_type
            /\ merge_out[1].value = winner.value
            /\ merge_out[1].description = winner.description

\* C16 witness: a PHONE from the regex list and a PERSON_NAME from the NLP
\* list, same start, same confidence, different ends: the regex entity is
\* the existing item and gives the type, the span is the union
C16_Witness ==
    /\ mpc = "merged"
    /\ Len(entity_lists[1]) = 1 /\ Len(entity_lists[2]) = 1
    /\ entity_lists[1][1].entity_type = PHONE
    /\ entity_lists[2][1].entity_type = PERSON_NAME
    /\ entity_lists[1][1].confidence = entity_lists[2][1].confidence
    /\ entity_lists[1][1].start = entity_lists[2][1].start
    /\ entity_lists[1][1].end < entity_lists[2][1].end
    /\ Len(merge_out) = 1
    /\ merge_out[1].entity_type = PHONE
    /\ merge_out[1].value = entity_lists[1][1].value
    /\ merge_out[1].end = entity_lists[2][1].end

\* C17: every list merge returns is sorted by start ascending and every
\* returned entity has confidence <= 1.0; merge of no entities (all input
\* lists empty) returns the empty list.
C17_SortedAndClamped ==
    mpc # "ready" =>
        /\ \A i \in 1..(Len(merge_out) - 1) : merge_out[i].start <= merge_out[i + 1].start
        /\ \A i \in 1..Len(merge_out) : merge_out[i].confidence <= 100
        /\ Flatten(entity_lists) = <<>> => merge_out = <<>>

\* C17 witness: a returned list of two entities in start order, one of them
\* combined from both sources with its confidence at the cap
C17_Witness ==
    /\ mpc = "merged"
    /\ Len(merge_out) = 2
    /\ merge_out[1].start < merge_out[2].start
    /\ \E i \in 1..2 : merge_out[i].confidence = 100 /\ merge_out[i].source = "regex+nlp"

\* C4: the list merge returns is non-overlapping: no two returned entities
\* have spans that intersect.
C4_MergeNonOverlapping ==
    mpc # "ready" =>
        \A i, j \in 1..Len(merge_out) : i < j => ~Intersect(merge_out[i], merge_out[j])

\* The value of every entity of the list is as long as its span
ValuesMatchSpans(ents) ==
    \A i \in 1..Len(ents) : Len(ents[i].value) = ents[i].end - ents[i].start

\* C25: if every input entity satisfies len(value) == end - start, then every
\* entity returned by merge also satisfies len(value) == end - start.
C25_ValueMatchesSpan ==
    (mpc # "ready" /\ ValuesMatchSpans(Flatten(entity_lists))) =>
        ValuesMatchSpans(merge_out)

\* The character offsets covered by the spans of the entities of a list
Covered(ents) ==
    {p \in 0..(MaxPos - 1) : \E i \in 1..Len(ents) : ents[i].start <= p /\ p < ents[i].end}

HighestWithin(entity, ents) ==
    LET inside == {i \in 1..Len(ents) :
                      entity.start <= ents[i].start /\ ents[i].end <= entity.end}
    IN  IF inside = {} THEN 0
        ELSE LET top == CHOOSE i \in inside :
                            \A j \in inside : ents[j].confidence <= ents[i].confidence
             IN  ents[top].confidence

\* C27: the confidence of an entity returned by merge never exceeds the
\* highest confidence among the input entities it absorbed plus 0.10: the
\* multi-source boost is applied at most once per returned entity.
C27_BoostAtMostOnce ==
    mpc = "merged" =>
        \A i \in 1..Len(merge_out) :
            merge_out[i].confidence
            <= HighestWithin(merge_out[i], Flatten(entity_lists)) + MULTI_SOURCE_BOOST

-----------------------------------------------------------------------------
(* Properties of RedactionEngine *)

\* The entities of a list have pairwise disjoint spans
PairwiseDisjoint(ents) ==
    \A i, j \in 1..Len(ents) : i < j => ~Intersect(ents[i], ents[j])

\* An entity without the redacted_value redact attached
Original(e) == [k \in DOMAIN e \ {"redacted_value"} |-> e[k]]

\* The text rebuilt left to right: from offset pos on, the original characters
\* between the spans and, for each span, the entity's redacted_value
RECURSIVE Rebuilt(_, _, _)
Rebuilt(txt, ascending, pos) ==
    IF ascending = <<>> THEN SliceFrom(txt, pos)
    ELSE Slice(txt, pos, Head(ascending).start) \o Head(ascending).redacted_value
         \o Rebuilt(txt, Tail(ascending), Head(ascending).end)

\* C5: for pairwise disjoint entities at correct offsets, the redacted text is
\* the original text with each span replaced by that entity's replacement and
\* every other character unchanged and in order; the returned entities are
\* the given ones in ascending start order, each with the redacted_value that
\* was substituted (for tag_replace the tag "[" + entity_type + "]").
C5_DisjointSubstitution ==
    (rpc = "returned" /\ PairwiseDisjoint(entities)) =>
        /\ Len(updated_entities) = Len(entities)
        /\ \A i \in 1..Len(entities) :
                Cardinality({j \in 1..Len(entities) : entities[j] = entities[i]})
                = Cardinality({j \in 1..Len(updated_entities) :
                                 Original(updated_entities[j]) = entities[i]})
        /\ \A i \in 1..(Len(updated_entities) - 1) :
                updated_entities[i].start < updated_entities[i + 1].start
        /\ \A i \in 1..Len(updated_entities) :
                /\ "redacted_value" \in DOMAIN updated_entities[i]
                /\ strategy = "tag_replace" =>
                        updated_entities[i].redacted_value
                        = <<"[">> \o updated_entities[i].entity_type \o <<"]">>
        /\ entities # <<>> => redacted_text = Rebuilt(text, updated_entities, 0)
        /\ entities = <<>> => redacted_text = text

\* C5 witness: "a@b.com and c@d.com" with tag_replace gives "[EMAIL] and [EMAIL]"
C5_Witness ==
    /\ rpc = "returned"
    /\ text = ExampleText
    /\ entities = ExampleEntities
    /\ strategy = "tag_replace"
    /\ redacted_text = <<"[", "E", "M", "A", "I", "L", "]", " ", "a", "n", "d", " ",
                         "[", "E", "M", "A", "I", "L", "]">>
    /\ Len(updated_entities) = 2
    /\ updated_entities[1].start = 0
    /\ updated_entities[2].start = 12
    /\ \A i \in 1..2 : updated_entities[i].redacted_value = <<"[", "E", "M", "A", "I", "L", "]">>

\* C6: the mask replacement of an entity whose value has length k has length
\* exactly k, so redacting with mask leaves the length of the text unchanged.
C6_MaskPreservesLength ==
    (rpc = "returned" /\ strategy = "mask") =>
        /\ \A i \in 1..Len(updated_entities) :
                Len(updated_entities[i].redacted_value) = Len(updated_entities[i].value)
        /\ Len(redacted_text) = Len(text)

\* The pairs issued since the cache was last empty give each cache key one
\* replacement
OneReplacementPerKey == \A p, q \in issued : p[1] = q[1] => p[2] = q[2]

\* A step keeps every cache entry as it is, unless it empties the cache
CacheEntriesKept ==
    \/ anonymization_cache' = <<>>
    \/ \A k \in DOMAIN anonymization_cache :
            /\ k \in DOMAIN anonymization_cache'
            /\ anonymization_cache'[k] = anonymization_cache[k]

\* C7: within one engine, over any sequence of redact calls with no
\* clear_cache in between, entities with the same (entity_type, value) get the
\* same replacement from anonymize; a cache entry is never overwritten or
\* removed except by clear_cache, which empties the cache.
C7_AnonymizeDeterministic ==
    /\ [](OneReplacementPerKey)
    /\ [][CacheEntriesKept]_vars
    /\ [][ClearCache => anonymization_cache' = <<>>]_vars
    /\ [][(anonymization_cache # <<>> /\ anonymization_cache' = <<>>) => ClearCache]_vars

\* C18: _anonymize never raises for an entity with entity_type and value: for
\* an entity type with no generator, and whenever the type's generator
\* raises, it returns the fallback tag "[ANON_<entity_type>]", stores that tag
\* in the cache, and returns the same tag on later calls for the same
\* (entity_type, value), for as long as the cache is not cleared.
C18_FallbackOnGeneratorFailure ==
    /\ (rpc = "returned" /\ strategy = "anonymize") =>
            /\ Len(updated_entities) = Len(entities)
            /\ \A i \in 1..Len(updated_entities) :
                    /\ updated_entities[i].redacted_value # <<>>
                    /\ updated_entities[i].entity_type \notin FAKER_MAP =>
                            updated_entities[i].redacted_value
                            = <<"[", "A", "N", "O", "N", "_">>
                              \o updated_entities[i].entity_type \o <<"]">>
    /\ \A miss \in generator_log :
            LET cache_key == miss[1] \o <<":">> \o miss[2]
                tag == <<"[", "A", "N", "O", "N", "_">> \o miss[1] \o <<"]">>
            IN  /\ miss[1] \notin FAKER_MAP <=> miss[3] = "none"
                /\ miss[3] \in {"none", "raises"} =>
                        /\ miss[4] = tag
                        /\ cache_key \in DOMAIN anonymization_cache
                        /\ anonymization_cache[cache_key] = tag
                        /\ \A p \in issued : p[1] = cache_key => p[2] = tag

\* C18 witness: the generator raised for an EMAIL in an earlier call, and the
\* call that has just returned gave the same EMAIL value the fallback tag
\* again, from the cache
C18_Witness ==
    /\ rpc = "returned"
    /\ strategy = "anonymize"
    /\ ncalls >= 2
    /\ \E i \in 1..Len(updated_entities) :
            /\ updated_entities[i].entity_type = EMAIL
            /\ updated_entities[i].redacted_value = AnonFallback(EMAIL)
            /\ <<EMAIL, updated_entities[i].value, "raises", AnonFallback(EMAIL)>>
               \in generator_log
            /\ \A j \in 1..Len(entities) : entities[j].entity_type = EMAIL

\* C7 witness: a later call (the cache not cleared since the first) anonymizes
\* two entities with the same entity_type and value at different offsets and
\* both get the same synthetic value
C7_Witness ==
    /\ rpc = "returned"
    /\ strategy = "anonymize"
    /\ ncalls >= 2
    /\ Cardinality(issued) >= 2
    /\ Len(updated_entities) = 2
    /\ updated_entities[1].start # updated_entities[2].start
    /\ CacheKey(updated_entities[1]) = CacheKey(updated_entities[2])
    /\ updated_entities[1].redacted_value = <<"f", "1">>
    /\ updated_entities[2].redacted_value = <<"f", "1">>

\* The candidate a detector reports when it matches the replacement of an
\* updated entity in a text
ReplacementCandidate(entity) ==
    [value |-> entity.redacted_value, start |-> entity.start,
     end |-> entity.start + Len(entity.redacted_value)]

\* C28: every replacement value produced by the mask, tag_replace and hash
\* strategies is classified as a redaction artifact by _is_redaction_artifact
\* when a detector reports it as a candidate value, whatever the surrounding
\* text: the mask character, the tag brackets and the hash delimiters of the
\* two engines agree.
C28_ReplacementsAreArtifacts ==
    (rpc = "returned" /\ strategy \in StatelessStrategies) =>
        \A i \in 1..Len(updated_entities) :
            /\ IsRedactionArtifact(ReplacementCandidate(updated_entities[i]), redacted_text)
            /\ IsRedactionArtifact(ReplacementCandidate(updated_entities[i]),
                                   updated_entities[i].redacted_value)

\* The characters of a string that are characters of the original text, in
\* order (no replacement is made of characters of the text)
RECURSIVE OriginalCharsOf(_, _)
OriginalCharsOf(str, txt) ==
    IF str = <<>> THEN <<>>
    ELSE IF \E p \in 1..Len(txt) : txt[p] = str[1]
         THEN <<str[1]>> \o OriginalCharsOf(Tail(str), txt)
         ELSE OriginalCharsOf(Tail(str), txt)

\* The characters of the text that no entity span covers, in order
RECURSIVE Uncovered(_, _, _)
Uncovered(txt, ents, pos) ==
    IF pos >= Len(txt) THEN <<>>
    ELSE IF \E i \in 1..Len(ents) : ents[i].start <= pos /\ pos < ents[i].end
         THEN Uncovered(txt, ents, pos + 1)
         ELSE <<txt[pos + 1]>> \o Uncovered(txt, ents, pos + 1)

\* Every replacement made has a length other than that of its span
ReplacementLengthsDiffer ==
    \A i \in 1..Len(updated_entities) :
        Len(updated_entities[i].redacted_value)
        # updated_entities[i].end - updated_entities[i].start

\* C24: when redact is applied to an output of merge with a strategy whose
\* replacement length differs from the span length, every character of the
\* original text not covered by any entity span appears in the redacted text
\* in its original order, and no original character covered by an entity
\* span survives.
C24_UncoveredTextSurvives ==
    (mpc = "merged" /\ rpc = "returned" /\ ReplacementLengthsDiffer) =>
        OriginalCharsOf(redacted_text, text) = Uncovered(text, merge_out, 0)

-----------------------------------------------------------------------------
(* Properties of VerificationEngine *)

\* Every scan performed so far left at least one non-artifact finding
EveryScanResidual == \A i \in 1..Len(scan_log) : scan_log[i]

\* C8: for any max_retries >= 1, if every scan yields at least one
\* non-artifact finding, verify terminates after exactly max_retries scans
\* (scan_count = max_retries) and returns passed = false.
C8_BoundedRetries ==
    /\ <>(vpc = "Done")
    /\ [](EveryScanResidual => Len(scan_log) <= max_retries)
    /\ []((vpc = "Done" /\ max_retries >= 1 /\ EveryScanResidual) =>
            /\ Len(scan_log) = max_retries
            /\ result.scan_count = max_retries
            /\ result.passed = FALSE)

\* C8 witness: verify has returned after MaxRetries scans, each of which
\* reported exactly one residual finding
C8_Witness ==
    /\ vpc = "Done"
    /\ max_retries = MaxRetries
    /\ Len(scan_log) = max_retries
    /\ EveryScanResidual
    /\ Len(result.residual_entities) = 1
    /\ result.scan_count = max_retries
    /\ result.passed = FALSE

\* C9: the first scan that finds no non-artifact candidate ends the loop: no
\* further scan is performed, scan_count is the index of that scan, and the
\* result has passed = true and confidence = 1.0.
C9_FirstCleanScanEnds ==
    /\ \A i \in 1..(Len(scan_log) - 1) : scan_log[i]
    /\ (scan_log # <<>> /\ ~scan_log[Len(scan_log)]) =>
            /\ vpc = "Done"
            /\ result.scan_count = Len(scan_log)
            /\ result.passed = TRUE
            /\ result.confidence = 100

\* C9 witness: the second scan was the first clean one, with a later scan left
\* in max_retries
C9_Witness ==
    /\ vpc = "Done"
    /\ max_retries > 2
    /\ scan_log = <<TRUE, FALSE>>
    /\ result.scan_count = 2
    /\ result.passed = TRUE

\* value is a tag "[TYPE]" as tag_replace produces it
IsBracketTag(value) ==
    \E type \in {EMAIL, PHONE, DATE, PERSON_NAME, EVENT} :
        value = TagReplace([entity_type |-> type])

\* The entities of a list whose value is a bracket tag
TagHits(found) == {i \in 1..Len(found) : IsBracketTag(found[i].value)}

\* C10: a candidate whose matched value is a bracket tag produced by
\* tag_replace is always classified as a redaction artifact, wherever in the
\* text it is reported; so verifying a text whose only detector hits are such
\* tags returns passed = true with no residual entities.
C10_BracketTagIsArtifact ==
    /\ \A c \in Findings(scanned_text, "regex"),
          type \in {EMAIL, PHONE, DATE, PERSON_NAME, EVENT} :
            /\ IsBracketTag(c.value) => IsRedactionArtifact(c, scanned_text)
            /\ IsRedactionArtifact([c EXCEPT !.value = TagReplace([entity_type |-> type])],
                                   scanned_text)
    /\ (/\ Len(scan_log) = 1
        /\ TagHits(regex_entities) = DOMAIN regex_entities
        /\ TagHits(nlp_entities) = DOMAIN nlp_entities) =>
            /\ vpc = "Done"
            /\ result.passed = TRUE
            /\ result.residual_entities = <<>>

\* C10 witness: both detectors reported a "[EMAIL]" tag of the text, and
\* nothing else, and verify passed
C10_Witness ==
    /\ vpc = "Done"
    /\ Len(scan_log) = 1
    /\ Len(regex_entities) = 1
    /\ Len(nlp_entities) = 1
    /\ regex_entities[1].value = TagReplace([entity_type |-> EMAIL])
    /\ nlp_entities[1].value = TagReplace([entity_type |-> EMAIL])
    /\ result.passed = TRUE
    /\ result.residual_entities = <<>>

\* C19: the residual_entities returned by verify accumulate over the scans:
\* every non-artifact finding of every scan performed during the call is
\* contained in the returned residual_entities.
C19_ResidualsAccumulate ==
    vpc = "Done" =>
        \A k \in 1..Len(scan_findings) :
            \A i \in 1..Len(scan_findings[k]) :
                \E j \in 1..Len(result.residual_entities) :
                    result.residual_entities[j] = scan_findings[k][i]

\* C22: whenever verify returns passed = true, the returned residual_entities
\* list is empty and confidence is 1.0, for any detector behaviour, including
\* detectors whose findings differ between scans of the same text.
C22_PassedMeansNoResidual ==
    (vpc = "Done" /\ result.passed) =>
        /\ result.residual_entities = <<>>
        /\ result.confidence = 100

\* C23: verify never reports passed = true without having scanned: for every
\* max_retries, 0 included, a result with passed = true has scan_count >= 1.
C23_PassedMeansScanned ==
    (vpc = "Done" /\ result.passed) => result.scan_count >= 1

-----------------------------------------------------------------------------
(* Properties of AudioRedactor *)

\* Two time ranges share an instant
RangesOverlap(a, b) == a.start_ms <= b.end_ms /\ b.start_ms <= a.end_ms

\* Twice the instants that matter for coverage: the instants themselves and
\* the midpoints between any two of them
DoubledInstants(segments) ==
    LET ends == {segments[i].start_ms : i \in 1..Len(segments)}
                \cup {segments[i].end_ms : i \in 1..Len(segments)}
    IN  {a + b : a \in ends, b \in ends}

\* The instant t2 / 2 lies in the time range of one of the segments
CoveredBy(t2, segments) ==
    \E i \in 1..Len(segments) :
        2 * segments[i].start_ms <= t2 /\ t2 <= 2 * segments[i].end_ms

\* C11: _merge_overlapping merges every pair of segments whose time ranges
\* overlap into one region spanning the minimum start to the maximum end; the
\* returned regions are sorted by start_ms and pairwise non-overlapping, and
\* they cover exactly the union of the input time ranges.
C11_RegionsMerged ==
    apc = "merged" =>
        /\ \A i, j \in 1..Len(pii_segments) :
                RangesOverlap(pii_segments[i], pii_segments[j]) =>
                    \E r \in 1..Len(merged_segments) :
                        /\ merged_segments[r].start_ms
                           <= Min(pii_segments[i].start_ms, pii_segments[j].start_ms)
                        /\ merged_segments[r].end_ms
                           >= Max(pii_segments[i].end_ms, pii_segments[j].end_ms)
        /\ Len(pii_segments) = 2 /\ RangesOverlap(pii_segments[1], pii_segments[2]) =>
                /\ Len(merged_segments) = 1
                /\ merged_segments[1].start_ms
                   = Min(pii_segments[1].start_ms, pii_segments[2].start_ms)
                /\ merged_segments[1].end_ms
                   = Max(pii_segments[1].end_ms, pii_segments[2].end_ms)
        /\ \A r \in 1..(Len(merged_segments) - 1) :
                /\ merged_segments[r].start_ms < merged_segments[r + 1].start_ms
                /\ merged_segments[r].end_ms < merged_segments[r + 1].start_ms
        /\ \A r, q \in 1..Len(merged_segments) :
                r # q => ~RangesOverlap(merged_segments[r], merged_segments[q])
        /\ \A t2 \in DoubledInstants(pii_segments \o merged_segments) :
                CoveredBy(t2, pii_segments) <=> CoveredBy(t2, merged_segments)

\* C11 witness: {100,200} and {180,300} give the single region {100,300}
C11_Witness ==
    /\ apc = "merged"
    /\ Len(pii_segments) = 2
    /\ pii_segments[1].start_ms = 100 /\ pii_segments[1].end_ms = 200
    /\ pii_segments[2].start_ms = 180 /\ pii_segments[2].end_ms = 300
    /\ Len(merged_segments) = 1
    /\ merged_segments[1].start_ms = 100
    /\ merged_segments[1].end_ms = 300

-----------------------------------------------------------------------------
(* Properties of merge and redact on objects *)

\* C12: merge and redact never mutate their inputs: after the call every
\* dict that existed before it has exactly the fields and values it had (no
\* changed start, end, confidence or source, no redacted_value added) and
\* every list that existed before it has the same elements in the same order.
C12_InputsNotMutated ==
    hpc \in {"merged", "redacted"} =>
        /\ \A r \in 1..Len(dicts_before) : obj_dicts[r] = dicts_before[r]
        /\ \A l \in 1..Len(lists_before) : obj_lists[l] = lists_before[l]

\* C12 witness: merge combined a regex and an NLP detection into one entity
\* with a boosted confidence, redact attached a redacted_value to its copy,
\* and the dicts the detectors returned are as they were
C12_Witness ==
    /\ hpc = "redacted"
    /\ Len(obj_lists[1]) = 1 /\ Len(obj_lists[2]) = 1
    /\ Len(obj_lists[3]) = 1
    /\ obj_dicts[obj_lists[3][1]].source = "regex+nlp"
    /\ obj_dicts[obj_lists[3][1]].confidence > obj_dicts[1].confidence
    /\ "redacted_value" \notin DOMAIN obj_dicts[obj_lists[3][1]]
    /\ Len(obj_lists[call_ret]) = 1
    /\ "redacted_value" \in DOMAIN obj_dicts[obj_lists[call_ret][1]]
    /\ obj_dicts[1].source = "regex"
    /\ obj_dicts[2].source = "nlp"

-----------------------------------------------------------------------------
(* Properties of merge and redact on malformed entities *)

\* 0 <= start < end <= len(text)
WellFormed(entity, txt) ==
    0 <= entity.start /\ entity.start < entity.end /\ entity.end <= Len(txt)

\* The well-formed entities of a list, in order
WellFormedOnly(ents, txt) == SelectSeq(ents, LAMBDA e : WellFormed(e, txt))

\* C13: a malformed entity (start >= end, or offsets outside the text) is
\* dropped by merge and by redact, the batch is not aborted, and the redaction
\* of the remaining entities and of the text outside their spans is the same
\* as if the malformed entity had not been supplied.
C13_MalformedDropped ==
    /\ mpc = "merged" =>
            /\ \A i \in 1..Len(merge_out) : WellFormed(merge_out[i], text)
            /\ merge_out = Merge(<<WellFormedOnly(entities, text)>>)
    /\ (rpc = "returned" /\ strategy # "anonymize") =>
            LET r == Redact(text, WellFormedOnly(entities, text), strategy, <<>>,
                            NoOutcomes(entities))
            IN  /\ redacted_text = r.redacted_text
                /\ updated_entities = r.updated_entities

-----------------------------------------------------------------------------
(* Properties of redact_audio *)

\* The text offsets <<start, end>> the scan of the words gives the words
\* k.., <<-1, -1>> for a word it does not find
RECURSIVE WordOffsets(_, _, _, _)
WordOffsets(words, txt, k, current_offset) ==
    IF k > Len(words) THEN <<>>
    ELSE LET word_pos == Find(txt, words[k].word, current_offset)
         IN  IF word_pos = -1
             THEN <<<<-1, -1>>>> \o WordOffsets(words, txt, k + 1, current_offset)
             ELSE <<<<word_pos, word_pos + Len(words[k].word)>>>>
                  \o WordOffsets(words, txt, k + 1, word_pos + Len(words[k].word))

\* The words matched to an entity: entity.start < word_end_offset and
\* entity.end > word_start_offset
MatchedIndexes(entity) ==
    LET offsets == WordOffsets(words_with_ts, full_text, 1, 0)
    IN  {k \in 1..Len(words_with_ts) :
            /\ offsets[k][1] # -1
            /\ entity.start < offsets[k][2]
            /\ entity.end > offsets[k][1]}

\* The entities that overlap a word anchor, in order
AnchoredEntities == SelectSeq(pii_entities, LAMBDA e : MatchedIndexes(e) # {})

\* The tag "[TYPE]" of an entity
TagOf(entity) == <<"[">> \o entity.entity_type \o <<"]">>

\* C14: an entity that overlaps no word anchor yields no time segment (and no
\* beep or audit_log entry) but still appears in the textual output: it is
\* replaced by its tag in redacted_transcript and is listed in entities_found.
C14_UnanchoredStillInText ==
    apc = "returned" =>
        /\ Len(pii_segments) = Len(AnchoredEntities)
        /\ \A i \in 1..Len(pii_segments) :
                /\ pii_segments[i].entity_type = AnchoredEntities[i].entity_type
                /\ pii_segments[i].value = AnchoredEntities[i].value
        /\ Len(audit_log) = Len(merged_segments)
        /\ Len(merged_segments) <= Len(pii_segments)
        /\ \A i \in 1..Len(pii_entities) :
                MatchedIndexes(pii_entities[i]) = {} =>
                    /\ i \in DOMAIN entities_found
                    /\ entities_found[i] = pii_entities[i]
                    /\ Find(redacted_transcript, TagOf(pii_entities[i]), 0) # -1

\* The least and the greatest number of a set
LeastOf(S) == CHOOSE x \in S : \A y \in S : x <= y
GreatestOf(S) == CHOOSE x \in S : \A y \in S : x >= y

\* C20: a word is matched to an entity exactly when entity.start <
\* word_end_offset and entity.end > word_start_offset, and the segment of an
\* entity runs from the minimum start time to the maximum end time over all
\* its matched words (in ms), for any word timing list.
C20_SegmentSpansMatchedWords ==
    apc = "returned" =>
        /\ Len(pii_segments) = Len(AnchoredEntities)
        /\ \A i \in 1..Len(pii_segments) :
                LET matched == MatchedIndexes(AnchoredEntities[i])
                IN  /\ pii_segments[i].start_ms
                       = 1000 * LeastOf({words_with_ts[k].start : k \in matched})
                    /\ pii_segments[i].end_ms
                       = 1000 * GreatestOf({words_with_ts[k].end : k \in matched})

-----------------------------------------------------------------------------
(* Properties of the shared RedactionEngine *)

\* The worker is between the cache lookup and the store of _anonymize
InLookupGenerateStore(w) == workers[w].pc \in {"lookup", "generate", "store"}

\* C15: when the shared RedactionEngine is invoked with strategy anonymize
\* from several concurrent workers, access to the cache is exclusive: at most
\* one worker at a time executes the lookup-generate-store sequence for a
\* given cache key.
C15_CacheAccessExclusive ==
    \A w1, w2 \in 1..MaxWorkers :
        (/\ w1 # w2
         /\ InLookupGenerateStore(w1)
         /\ InLookupGenerateStore(w2)) =>
            CacheKey(workers[w1].entity) # CacheKey(workers[w2].entity)
====
